---- MODULE Spec2Model ----
(***************************************************************************)
(* A model of the bytecode compiler (package compiler) and of the stack    *)
(* virtual machine (package vm) of the scripting-language runtime.         *)
(*                                                                         *)
(* Instructions are sequences of bytes, produced by Make and decoded by    *)
(* the run loop exactly as the code does.  Go slices are 0-based; a byte   *)
(* at Go index i of a slice s is s[i + 1] here.                            *)
(***************************************************************************)
EXTENDS Integers, Sequences, FiniteSets, TLC

(***************************************************************************)
(* Opcodes.  The first 22 are numbered by the iota block of code.go; the   *)
(* others follow in the order of the definition table.                     *)
(***************************************************************************)
OpConstant == 0
OpAdd == 1
OpPop == 2
OpSub == 3
OpMul == 4
OpDiv == 5
OpTrue == 6
OpFalse == 7
OpString == 8
OpOut == 9
OpSetGlobal == 10
OpGetGlobal == 11
OpJump == 12
OpJumpNotTruthy == 13
OpGreaterThan == 14
OpEqual == 15
OpNotEqual == 16
OpCall == 17
OpReturnValue == 18
OpReturn == 19
OpGetLocal == 20
OpSetLocal == 21
OpNull == 22
OpMod == 23
OpBitAnd == 24
OpBitOr == 25
OpBitXor == 26
OpLshift == 27
OpRshift == 28
OpBitNot == 29
OpMinus == 30
OpBang == 31
OpDup == 32
OpSetFree == 33
OpGetFree == 34
OpGetBuiltin == 35
OpArray == 36
OpHash == 37
OpIndex == 38
OpMember == 39
OpJumpTruthy == 40
OpCatch == 41
OpEndCatch == 42
OpThrow == 43
OpSpawn == 44
OpClosure == 45
OpImport == 46

\* definitions[op].OperandWidths
OperandWidths(op) ==
    CASE op \in {OpConstant, OpString, OpSetGlobal, OpGetGlobal, OpJump,
                 OpJumpNotTruthy, OpJumpTruthy, OpCatch, OpArray, OpHash,
                 OpMember} -> <<2>>
      [] op \in {OpCall, OpSpawn, OpGetLocal, OpSetLocal, OpGetFree, OpSetFree,
                 OpGetBuiltin} -> <<1>>
      [] op = OpClosure -> <<2, 1>>
      [] OTHER -> <<>>

\* PutOperand with the low byte first
PutOperandLittleEndian(width, o) ==
    IF width = 2 THEN << o % 256, (o % 65536) \div 256 >> ELSE << o % 256 >>

\* binary.BigEndian.PutUint16(b, uint16(o)) and b[0] = byte(o)
PutOperand(width, o) ==
    IF width = 2 THEN << (o % 65536) \div 256, o % 256 >> ELSE << o % 256 >>

\* the operand loop of code.Make: the fields no operand is given for stay zero
RECURSIVE MakeOperands(_, _, _)
MakeOperands(widths, operands, i) ==
    IF i > Len(widths) THEN <<>>
    ELSE PutOperand(widths[i], IF i <= Len(operands) THEN operands[i] ELSE 0)
         \o MakeOperands(widths, operands, i + 1)

\* _, ok := definitions[op]
IsOpcode(op) == op \in OpConstant..OpImport

\* code.Make (an opcode without definition yields no bytes)
Make(op, operands) ==
    IF ~IsOpcode(op) THEN <<>>
    ELSE <<op>> \o MakeOperands(OperandWidths(op), operands, 1)

\* binary.BigEndian.Uint16(ins[ip+1:]) for the Go index ip of the opcode
ReadUint16(ins, ip) == ins[ip + 2] * 256 + ins[ip + 3]

\* int(ins[ip+1])
ReadUint8(ins, ip) == ins[ip + 2]


(***************************************************************************)
(* The syntax tree the compiler walks (package ast).  A node is a record   *)
(* whose field node names its Go type; Nil is a nil interface value.       *)
(***************************************************************************)
Nil == [node |-> "nil"]
ExpressionStatement(e) == [node |-> "ExpressionStatement", Expression |-> e]
OutStatement(e) == [node |-> "OutStatement", Value |-> e]
ReturnStatement(e) == [node |-> "ReturnStatement", Value |-> e]
SpawnStatement(f, args) == [node |-> "SpawnStatement", Function |-> f, Arguments |-> args]
SetStatement(name, e) == [node |-> "SetStatement", Name |-> name, Value |-> e, IsConst |-> FALSE]
ConstStatement(name, e) == [node |-> "SetStatement", Name |-> name, Value |-> e, IsConst |-> TRUE]
ThrowStatement(e) == [node |-> "ThrowStatement", Value |-> e]
ImportStatement(path, alias) == [node |-> "ImportStatement", Path |-> path, Alias |-> alias]
AssignStatement(name, e) == [node |-> "AssignStatement", Name |-> name, Value |-> e]
InfixExpression(l, op, r) == [node |-> "InfixExpression", Left |-> l, Operator |-> op, Right |-> r]
PrefixExpression(op, r) == [node |-> "PrefixExpression", Operator |-> op, Right |-> r]
PostfixExpression(l, op) == [node |-> "PostfixExpression", Left |-> l, Operator |-> op]
IntegerLiteral(n) == [node |-> "IntegerLiteral", Value |-> n]
StringLiteral(s) == [node |-> "StringLiteral", Value |-> s]
Boolean(b) == [node |-> "Boolean", Value |-> b]
HashLiteral(pairs) == [node |-> "HashLiteral", Pairs |-> pairs]
ArrayLiteral(es) == [node |-> "ArrayLiteral", Elements |-> es]
IndexExpression(l, i) == [node |-> "IndexExpression", Left |-> l, Index |-> i]
MemberExpression(o, m) == [node |-> "MemberExpression", Object |-> o, Member |-> m]
Identifier(name) == [node |-> "Identifier", Value |-> name]
FunctionLiteral(params, body) == [node |-> "FunctionLiteral", Parameters |-> params, Body |-> body]
CallExpression(f, args) == [node |-> "CallExpression", Function |-> f, Arguments |-> args]
BlockStatement(stmts) == [node |-> "BlockStatement", Statements |-> stmts]
TryExpression(block, param, catch) ==
    [node |-> "TryExpression", Block |-> block, CatchParameter |-> param, CatchBlock |-> catch]
IfStatement(cond, cons, alt) ==
    [node |-> "IfStatement", Condition |-> cond, Consequence |-> cons, Alternative |-> alt]
WhileStatement(cond, body) == [node |-> "WhileStatement", Condition |-> cond, Body |-> body]
ForStatement(init, cond, update, body) ==
    [node |-> "ForStatement", Init |-> init, Condition |-> cond, Update |-> update, Body |-> body]
ForInStatement(var, iter, body) ==
    [node |-> "ForInStatement", Variable |-> var, Iterable |-> iter, Body |-> body]
BreakStatement == [node |-> "BreakStatement"]
ContinueStatement == [node |-> "ContinueStatement"]
Program(stmts) == [node |-> "Program", Statements |-> stmts]

(***************************************************************************)
(* Runtime values (package object).  Closures and arrays are pointers:     *)
(* their value is a reference into the heap.                               *)
(***************************************************************************)
GoNil == [t |-> "nil"]
Null == [t |-> "NULL"]
Integer(n) == [t |-> "INTEGER", iv |-> n]
String(s) == [t |-> "STRING", sv |-> s]
Bool(b) == [t |-> "BOOLEAN", bv |-> b]
CompiledFunction(ins, numLocals, numParameters) ==
    [t |-> "COMPILED_FUNCTION", Instructions |-> ins, NumLocals |-> numLocals,
     NumParameters |-> numParameters]
ClosureRef(k) == [t |-> "CLOSURE", ref |-> k]
ArrayRef(k) == [t |-> "ARRAY", ref |-> k]
\* object.Hashable: the types with a HashKey method
Hashable(obj) == obj.t \in {"INTEGER", "BOOLEAN", "STRING"}

\* HashKey of Integer, Boolean and String. Value, a uint64 in the source, is
\* written as a string: the decimal digits of an Integer, 1 or 0 for a
\* Boolean, and for a String the string itself in place of the FNV-1a sum of
\* its bytes (no two strings of these programs have the same sum)
HashKey(obj) ==
    [Type |-> obj.t,
     Value |-> CASE obj.t = "INTEGER" -> ToString(obj.iv)
                 [] obj.t = "BOOLEAN" -> IF obj.bv THEN "1" ELSE "0"
                 [] obj.t = "STRING" -> obj.sv]

HashRef(k) == [t |-> "HASH", ref |-> k]

\* strings.HasSuffix and strings.TrimSuffix
HasSuffix(str, suffix) ==
    /\ Len(str) >= Len(suffix)
    /\ SubSeq(str, Len(str) - Len(suffix) + 1, Len(str)) = suffix

TrimSuffix(str, suffix) ==
    IF HasSuffix(str, suffix) THEN SubSeq(str, 1, Len(str) - Len(suffix)) ELSE str

\* parts := strings.Split(name, "/"); parts[len(parts)-1], scanning str from
\* position i backwards for the last "/"
RECURSIVE LastPart(_, _)
LastPart(str, i) ==
    IF i = 0 THEN str
    ELSE IF SubSeq(str, i, i) = "/" THEN SubSeq(str, i + 1, Len(str))
    ELSE LastPart(str, i - 1)

(***************************************************************************)
(* Symbol table.  c.symbolTable is the chain of tables, the outermost      *)
(* (global) table first and the current table last.                        *)
(***************************************************************************)
GlobalScope == "GLOBAL"
LocalScope == "LOCAL"
BuiltinScope == "BUILTIN"
FreeScope == "FREE"

BuiltinNames ==
    << "type", "len", "push", "first", "last", "pop", "readFile", "writeFile",
       "toUpperCase", "toLowerCase", "now", "sleep", "json_encode", "json_decode",
       "fs_remove", "fs_exists", "os_mouse_move", "os_mouse_click", "os_key_tap",
       "os_exec", "os_mouse_get_pos", "os_alert", "os_compile", "os_keyboard_type",
       "math_random", "math_sqrt", "math_pow", "str_split", "str_contains",
       "http_get", "http_serve", "input", "int", "float", "str", "bool", "typeof",
       "copy", "paste" >>

Symbol(name, scope, index, isConst) ==
    [Name |-> name, Scope |-> scope, Index |-> index, IsConst |-> isConst]

\* NewSymbolTable after the DefineBuiltin loop of compiler.New
NewSymbolTable ==
    [store |-> [n \in {BuiltinNames[i] : i \in 1..Len(BuiltinNames)} |->
                   Symbol(n, BuiltinScope,
                          (CHOOSE i \in 1..Len(BuiltinNames) : BuiltinNames[i] = n) - 1,
                          FALSE)],
     numDefinitions |-> 0,
     FreeSymbols |-> <<>>]

\* the table NewEnclosedSymbolTable adds to the chain
EnclosedSymbolTable == [store |-> <<>>, numDefinitions |-> 0, FreeSymbols |-> <<>>]

\* SymbolTable.Define / DefineConst on the current table
DefineSymbol(tabs, name, isConst) ==
    LET d == Len(tabs)
        sym == Symbol(name, IF d = 1 THEN GlobalScope ELSE LocalScope,
                      tabs[d].numDefinitions, isConst)
    IN [tabs |-> [tabs EXCEPT ![d] = [store |-> (name :> sym) @@ tabs[d].store,
                                      numDefinitions |-> tabs[d].numDefinitions + 1,
                                      FreeSymbols |-> tabs[d].FreeSymbols]],
        sym |-> sym]

\* SymbolTable.Resolve on the table at depth d of the chain
RECURSIVE ResolveAt(_, _, _)
ResolveAt(tabs, d, name) ==
    IF name \in DOMAIN tabs[d].store
    THEN [tabs |-> tabs, sym |-> tabs[d].store[name], ok |-> TRUE]
    ELSE IF d = 1
    THEN [tabs |-> tabs, sym |-> Symbol(name, "", 0, FALSE), ok |-> FALSE]
    ELSE LET r == ResolveAt(tabs, d - 1, name)
         IN IF ~r.ok \/ r.sym.Scope \in {GlobalScope, BuiltinScope} THEN r
            ELSE LET free == Append(r.tabs[d].FreeSymbols, r.sym)
                     sym == Symbol(name, FreeScope, Len(free) - 1, FALSE)
                 IN [tabs |-> [r.tabs EXCEPT ![d] =
                                  [store |-> (name :> sym) @@ r.tabs[d].store,
                                   numDefinitions |-> r.tabs[d].numDefinitions,
                                   FreeSymbols |-> free]],
                     sym |-> sym, ok |-> TRUE]

(***************************************************************************)
(* Compiler.  A compiler value c holds the constants pool, the chain of    *)
(* symbol tables, the stack of instruction buffers (scopeIndex is always   *)
(* Len(c.scopes) - 1), the loop stack, and err: "" while no Compile call   *)
(* has returned an error.  A Go panic inside the compiler is an err that   *)
(* starts with "panic".                                                    *)
(***************************************************************************)
NewCompiler ==
    [constants |-> <<>>, symbolTable |-> <<NewSymbolTable>>, scopes |-> << <<>> >>,
     loopStack |-> <<>>, err |-> ""]

Failed(c) == c.err # ""
Fail(c, msg) == [c EXCEPT !.err = msg]

currentInstructions(c) == c.scopes[Len(c.scopes)]

enterScope(c) ==
    [c EXCEPT !.scopes = Append(@, <<>>),
              !.symbolTable = Append(@, EnclosedSymbolTable)]

\* leaveScope; the caller reads currentInstructions(c) before leaving
leaveScope(c) ==
    [c EXCEPT !.scopes = SubSeq(@, 1, Len(@) - 1),
              !.symbolTable = SubSeq(@, 1, Len(@) - 1)]

addInstruction(c, ins) == [c EXCEPT !.scopes[Len(c.scopes)] = @ \o ins]

\* emit; the position it returns is Len(currentInstructions(c)) before the call
emit(c, op, operands) == addInstruction(c, Make(op, operands))

\* addConstant; the index it returns is Len(c.constants) before the call
addConstant(c, obj) == [c EXCEPT !.constants = Append(@, obj)]

changeOperand(c, opPos, operand) ==
    LET ins == currentInstructions(c)
    IN IF opPos >= Len(ins) THEN Fail(c, "panic: index out of range")
       ELSE LET op == ins[opPos + 1]
                newInstruction == Make(op, <<operand>>)
            IN IF IsOpcode(op) /\ OperandWidths(op) = <<>>
               THEN Fail(c, "panic: index out of range")
               ELSE IF opPos + Len(newInstruction) > Len(ins)
               THEN Fail(c, "panic: index out of range")
               ELSE [c EXCEPT !.scopes[Len(c.scopes)] =
                        [i \in 1..Len(ins) |->
                            IF i - 1 >= opPos /\ i - 1 < opPos + Len(newInstruction)
                            THEN newInstruction[i - opPos] ELSE ins[i]]]

loadSymbol(c, s) ==
    CASE s.Scope = GlobalScope -> emit(c, OpGetGlobal, <<s.Index>>)
      [] s.Scope = LocalScope -> emit(c, OpGetLocal, <<s.Index>>)
      [] s.Scope = BuiltinScope -> emit(c, OpGetBuiltin, <<s.Index>>)
      [] s.Scope = FreeScope -> emit(c, OpGetFree, <<s.Index>>)
      [] OTHER -> c

\* the scope-appropriate Set of SetStatement and AssignStatement
storeSymbol(c, s) ==
    CASE s.Scope = GlobalScope -> emit(c, OpSetGlobal, <<s.Index>>)
      [] s.Scope = LocalScope -> emit(c, OpSetLocal, <<s.Index>>)
      [] s.Scope = FreeScope -> emit(c, OpSetFree, <<s.Index>>)
      [] OTHER -> c

\* c.symbolTable.Define / DefineConst
Define(c, name, isConst) ==
    [c EXCEPT !.symbolTable = DefineSymbol(c.symbolTable, name, isConst).tabs]

DefinedSymbol(c, name, isConst) == DefineSymbol(c.symbolTable, name, isConst).sym

\* c.symbolTable.Resolve
Resolve(c, name) == ResolveAt(c.symbolTable, Len(c.symbolTable), name)

pushLoop(c, startPos) ==
    [c EXCEPT !.loopStack =
        Append(@, [startPos |-> startPos, breakPatches |-> <<>>, continuePatches |-> <<>>])]

popLoop(c) == [c EXCEPT !.loopStack = SubSeq(@, 1, Len(@) - 1)]

RECURSIVE patchAll(_, _, _, _)
patchAll(c, positions, i, target) ==
    IF i > Len(positions) \/ Failed(c) THEN c
    ELSE patchAll(changeOperand(c, positions[i], target), positions, i + 1, target)

\* patchLoopExits sending continue where it sends break
patchLoopExitsContinueAfter(c, afterPos) ==
    IF Len(c.loopStack) = 0 THEN c
    ELSE LET ctx == c.loopStack[Len(c.loopStack)]
         IN patchAll(patchAll(c, ctx.breakPatches, 1, afterPos),
                     ctx.continuePatches, 1, afterPos)

\* Compiler.patchLoopExits
patchLoopExits(c, afterPos) ==
    IF Len(c.loopStack) = 0 THEN c
    ELSE LET ctx == c.loopStack[Len(c.loopStack)]
         IN patchAll(patchAll(c, ctx.breakPatches, 1, afterPos),
                     ctx.continuePatches, 1, ctx.startPos)

InfixOpcode(operator) ==
    CASE operator = "+" -> OpAdd
      [] operator = "-" -> OpSub
      [] operator = "*" -> OpMul
      [] operator = "/" -> OpDiv
      [] operator = "%" -> OpMod
      [] operator = ">" -> OpGreaterThan
      [] operator = "==" -> OpEqual
      [] operator = "!=" -> OpNotEqual
      [] operator = "&" -> OpBitAnd
      [] operator = "|" -> OpBitOr
      [] operator = "^" -> OpBitXor
      [] operator = "<<" -> OpLshift
      [] operator = ">>" -> OpRshift
      [] OTHER -> -1

RECURSIVE Compile(_, _)
RECURSIVE compileAll(_, _, _)
RECURSIVE compileBlockLoop(_, _, _)
RECURSIVE loadAll(_, _, _)
RECURSIVE defineAll(_, _, _)

\* for _, s := range node.Statements { err := c.Compile(s) ... }
compileAll(c, nodes, i) ==
    IF i > Len(nodes) \/ Failed(c) THEN c
    ELSE compileAll(Compile(c, nodes[i]), nodes, i + 1)

\* for _, s := range freeSymbols { c.loadSymbol(s) }
loadAll(c, syms, i) ==
    IF i > Len(syms) THEN c ELSE loadAll(loadSymbol(c, syms[i]), syms, i + 1)

\* for _, p := range node.Parameters { c.symbolTable.Define(p.Value) }
defineAll(c, names, i) ==
    IF i > Len(names) THEN c ELSE defineAll(Define(c, names[i], FALSE), names, i + 1)

compileBlockLoop(c, stmts, i) ==
    IF i > Len(stmts) \/ Failed(c) THEN c
    ELSE IF i = Len(stmts) /\ stmts[i].node = "ExpressionStatement"
    THEN Compile(c, stmts[i].Expression)
    ELSE compileBlockLoop(Compile(c, stmts[i]), stmts, i + 1)

compileBlockPreservingLast(c, block) == compileBlockLoop(c, block.Statements, 1)

\* if err != nil { return err }; c.emit(op)
EmitAfter(c1, op) == IF Failed(c1) THEN c1 ELSE emit(c1, op, <<>>)

\* c.emit(code.OpArray, len(node.Elements)) once the elements are compiled
EmitArray(c1, n) == IF Failed(c1) THEN c1 ELSE emit(c1, OpArray, <<n>>)

CompileInfix(c, node) ==
    IF node.Operator = "<"
    THEN LET c1 == Compile(c, node.Right)
             c2 == Compile(c1, node.Left)
         IN IF Failed(c1) THEN c1 ELSE IF Failed(c2) THEN c2
            ELSE emit(c2, OpGreaterThan, <<>>)
    ELSE IF node.Operator \in {"&&", "||"}
    THEN LET c1 == Compile(c, node.Left)
             jumpPos == Len(currentInstructions(c1))
             c2 == emit(c1, IF node.Operator = "&&" THEN OpJumpNotTruthy ELSE OpJumpTruthy,
                        <<9999>>)
             c3 == Compile(c2, node.Right)
         IN IF Failed(c1) THEN c1 ELSE IF Failed(c3) THEN c3
            ELSE changeOperand(c3, jumpPos, Len(currentInstructions(c3)))
    ELSE LET c1 == Compile(c, node.Left)
             c2 == Compile(c1, node.Right)
         IN IF Failed(c1) THEN c1 ELSE IF Failed(c2) THEN c2
            ELSE IF InfixOpcode(node.Operator) = -1
            THEN Fail(c2, "unknown operator")
            ELSE emit(c2, InfixOpcode(node.Operator), <<>>)

\* case *ast.HashLiteral: each key and its value in turn, then OpHash. Pairs is
\* the sequence of the pairs in the order the range over the map visits them
CompileHashLiteral(c, node) ==
    LET keysVals == [i \in 1..(2 * Len(node.Pairs)) |->
                        IF i % 2 = 1 THEN node.Pairs[(i + 1) \div 2].Key
                        ELSE node.Pairs[i \div 2].Value]
        c1 == compileAll(c, keysVals, 1)
    IN IF Failed(c1) THEN c1 ELSE emit(c1, OpHash, <<Len(keysVals)>>)

CompilePrefix(c, node) ==
    LET c1 == Compile(c, node.Right)
    IN IF Failed(c1) THEN c1
       ELSE CASE node.Operator = "!" -> emit(c1, OpBang, <<>>)
              [] node.Operator = "-" -> emit(c1, OpMinus, <<>>)
              [] node.Operator = "~" -> emit(c1, OpBitNot, <<>>)
              [] OTHER -> Fail(c1, "unknown prefix operator")

CompilePostfix(c, node) ==
    IF node.Left.node # "Identifier"
    THEN Fail(c, "++ and -- require a variable (identifier)")
    ELSE LET r == Resolve(c, node.Left.Value)
             c0 == [c EXCEPT !.symbolTable = r.tabs]
             c1 == emit(loadSymbol(c0, r.sym), OpDup, <<>>)
             c2 == emit(addConstant(c1, Integer(1)), OpConstant, <<Len(c1.constants)>>)
             c3 == emit(c2, IF node.Operator = "++" THEN OpAdd ELSE OpSub, <<>>)
         IN IF ~r.ok THEN Fail(c, "undefined variable")
            ELSE IF r.sym.IsConst THEN Fail(c0, "cannot modify constant")
            ELSE IF r.sym.Scope \in {GlobalScope, LocalScope, FreeScope}
            THEN storeSymbol(c3, r.sym)
            ELSE Fail(c3, "cannot assign")

CompileSet(c, node) ==
    LET c1 == Compile(c, node.Value)
        sym == DefinedSymbol(c1, node.Name, node.IsConst)
    IN IF Failed(c1) THEN c1
       ELSE storeSymbol(Define(c1, node.Name, node.IsConst), sym)

\* the name an ImportStatement binds: the alias, or the last part of a
\* literal path without its .xn
ImportName(node) ==
    IF node.Alias # Nil THEN node.Alias.Value
    ELSE IF node.Path.node = "StringLiteral"
    THEN LET name == TrimSuffix(node.Path.Value, ".xn") IN LastPart(name, Len(name))
    ELSE ""

CompileImport(c, node) ==
    LET c1 == Compile(c, node.Path)
        c2 == emit(c1, OpImport, <<>>)
        name == ImportName(node)
        sym == DefinedSymbol(c2, name, FALSE)
    IN IF Failed(c1) THEN c1
       ELSE IF name = "" THEN c2
       ELSE emit(Define(c2, name, FALSE),
                 IF sym.Scope = GlobalScope THEN OpSetGlobal ELSE OpSetLocal,
                 <<sym.Index>>)

CompileAssign(c, node) ==
    LET c1 == Compile(c, node.Value)
        r == Resolve(c1, node.Name)
        c2 == [c1 EXCEPT !.symbolTable = r.tabs]
    IN IF Failed(c1) THEN c1
       ELSE IF ~r.ok THEN Fail(c1, "undefined variable")
       ELSE IF r.sym.IsConst THEN Fail(c2, "cannot assign to constant")
       ELSE storeSymbol(c2, r.sym)

CompileIdentifier(c, node) ==
    LET r == Resolve(c, node.Value)
    IN IF ~r.ok THEN Fail(c, "undefined variable")
       ELSE loadSymbol([c EXCEPT !.symbolTable = r.tabs], r.sym)

CompileFunctionLiteral(c, node) ==
    LET c1 == defineAll(enterScope(c), node.Parameters, 1)
        c2 == Compile(c1, node.Body)
        ins == currentInstructions(c2)
        \* if the last instruction isn't a return, add implicit return null
        c3 == IF Len(ins) = 0 \/ ins[Len(ins)] # OpReturnValue
              THEN emit(c2, OpReturn, <<>>) ELSE c2
        table == c3.symbolTable[Len(c3.symbolTable)]
        numLocals == table.numDefinitions
        freeSymbols == table.FreeSymbols
        instructions == currentInstructions(c3)
        c4 == loadAll(leaveScope(c3), freeSymbols, 1)
        compiledFn == CompiledFunction(instructions, numLocals, Len(node.Parameters))
        c5 == addConstant(c4, compiledFn)
    IN IF Failed(c2) THEN c2
       ELSE emit(c5, OpClosure, <<Len(c4.constants), Len(freeSymbols)>>)

CompileCall(c, node, op) ==
    LET c1 == Compile(c, node.Function)
        c2 == compileAll(c1, node.Arguments, 1)
    IN IF Failed(c1) THEN c1 ELSE IF Failed(c2) THEN c2
       ELSE emit(c2, op, <<Len(node.Arguments)>>)

CompileTry(c, node) ==
    LET catchEmitPos == Len(currentInstructions(c))
        c1 == emit(c, OpCatch, <<9999>>)
        c2 == compileBlockPreservingLast(c1, node.Block)
        c3 == emit(c2, OpEndCatch, <<>>)
        jumpOverPos == Len(currentInstructions(c3))
        c4 == emit(c3, OpJump, <<9999>>)
        catchProloguePos == Len(currentInstructions(c4))
        hasParam == node.CatchParameter # Nil
        c5 == IF hasParam
              THEN LET e == enterScope(c4)
                   IN emit(Define(e, node.CatchParameter.Value, FALSE), OpSetLocal,
                           <<DefinedSymbol(e, node.CatchParameter.Value, FALSE).Index>>)
              ELSE emit(c4, OpPop, <<>>)
        c6 == compileBlockPreservingLast(c5, node.CatchBlock)
        c7 == IF hasParam THEN leaveScope(c6) ELSE c6
        afterCatchPos == Len(currentInstructions(c7))
    IN IF Failed(c2) THEN c2
       ELSE IF Failed(c6) THEN c7
       ELSE LET c8 == changeOperand(c7, catchEmitPos, catchProloguePos)
            IN IF Failed(c8) THEN c8 ELSE changeOperand(c8, jumpOverPos, afterCatchPos)

CompileIf(c, node) ==
    LET c1 == Compile(c, node.Condition)
        jumpNotTruthyPos == Len(currentInstructions(c1))
        c2 == emit(c1, OpJumpNotTruthy, <<9999>>)
        c3 == Compile(c2, node.Consequence)
    IN IF Failed(c1) THEN c1 ELSE IF Failed(c3) THEN c3
       ELSE IF node.Alternative = Nil
       THEN changeOperand(c3, jumpNotTruthyPos, Len(currentInstructions(c3)))
       ELSE LET jumpPos == Len(currentInstructions(c3))
                c4 == emit(c3, OpJump, <<9999>>)
                c5 == changeOperand(c4, jumpNotTruthyPos, Len(currentInstructions(c4)))
                c6 == Compile(c5, node.Alternative)
            IN IF Failed(c5) THEN c5 ELSE IF Failed(c6) THEN c6
               ELSE changeOperand(c6, jumpPos, Len(currentInstructions(c6)))

\* the part WhileStatement and ForStatement share: from the loopStack push on;
\* update is Nil for a while loop
CompileLoop(c, node, update) ==
    LET beforeLoopPos == Len(currentInstructions(c))
        c1 == pushLoop(c, beforeLoopPos)
        c2 == Compile(c1, node.Condition)
        jumpNotTruthyPos == Len(currentInstructions(c2))
        c3 == emit(c2, OpJumpNotTruthy, <<9999>>)
        c4 == Compile(c3, node.Body)
        c5 == IF update # Nil THEN Compile(c4, update) ELSE c4
        c6 == emit(c5, OpJump, <<beforeLoopPos>>)
        afterBodyPos == Len(currentInstructions(c6))
        c7 == changeOperand(c6, jumpNotTruthyPos, afterBodyPos)
        c8 == patchLoopExits(c7, afterBodyPos)
    IN IF Failed(c2) THEN popLoop(c2)
       ELSE IF Failed(c4) THEN popLoop(c4)
       ELSE IF Failed(c5) THEN popLoop(c5)
       ELSE IF Failed(c7) THEN c7
       ELSE IF Failed(c8) THEN c8
       ELSE popLoop(c8)

CompileFor(c, node) ==
    LET c1 == IF node.Init # Nil THEN Compile(c, node.Init) ELSE c
    IN IF Failed(c1) THEN c1 ELSE CompileLoop(c1, node, node.Update)

CompileForIn(c, node) ==
    LET c1 == Compile(enterScope(c), node.Iterable)
        iterSym == DefinedSymbol(c1, "__for_iter", FALSE)
        c2 == emit(Define(c1, "__for_iter", FALSE), OpSetLocal, <<iterSym.Index>>)
        idxSym == DefinedSymbol(c2, "__for_idx", FALSE)
        c3 == Define(Define(c2, "__for_idx", FALSE), node.Variable, FALSE)
        c4 == emit(addConstant(c3, Integer(0)), OpConstant, <<Len(c3.constants)>>)
        c5 == emit(c4, OpSetLocal, <<idxSym.Index>>)
        beforeLoopPos == Len(currentInstructions(c5))
        c6 == pushLoop(c5, beforeLoopPos)
        \* condition: __for_idx < __for_iter.len()
        c7 == emit(c6, OpGetLocal, <<iterSym.Index>>)
        c8 == emit(addConstant(c7, String("len")), OpMember, <<Len(c7.constants)>>)
        c9 == emit(emit(emit(c8, OpCall, <<0>>), OpGetLocal, <<idxSym.Index>>),
                   OpGreaterThan, <<>>)
        jumpNotTruthyPos == Len(currentInstructions(c9))
        c10 == emit(c9, OpJumpNotTruthy, <<9999>>)
        \* loop var = iterable[index]
        c11 == emit(emit(emit(c10, OpGetLocal, <<iterSym.Index>>),
                         OpGetLocal, <<idxSym.Index>>), OpIndex, <<>>)
        rv == Resolve(c11, node.Variable)
        c12 == emit([c11 EXCEPT !.symbolTable = rv.tabs], OpSetLocal, <<rv.sym.Index>>)
        c13 == Compile(c12, node.Body)
        \* index++
        c14 == emit(c13, OpGetLocal, <<idxSym.Index>>)
        c15 == emit(addConstant(c14, Integer(1)), OpConstant, <<Len(c14.constants)>>)
        c16 == emit(emit(c15, OpAdd, <<>>), OpSetLocal, <<idxSym.Index>>)
        c17 == emit(c16, OpJump, <<beforeLoopPos>>)
        afterBodyPos == Len(currentInstructions(c17))
        c18 == changeOperand(c17, jumpNotTruthyPos, afterBodyPos)
        c19 == patchLoopExits(c18, afterBodyPos)
    IN IF Failed(c1) THEN leaveScope(c1)
       ELSE IF Failed(c13) THEN leaveScope(popLoop(c13))
       ELSE IF Failed(c18) THEN c18
       ELSE IF Failed(c19) THEN c19
       ELSE leaveScope(popLoop(c19))

\* the BreakStatement / ContinueStatement case without the test of the loop
\* stack
CompileBreakAnywhere(c, isBreak) ==
    LET pos == Len(currentInstructions(c))
        c1 == emit(c, OpJump, <<9999>>)
        n == Len(c.loopStack)
    IN IF n = 0 THEN c1
       ELSE IF isBreak
       THEN [c1 EXCEPT !.loopStack[n].breakPatches = Append(@, pos)]
       ELSE [c1 EXCEPT !.loopStack[n].continuePatches = Append(@, pos)]

\* case *ast.BreakStatement (isBreak) and case *ast.ContinueStatement
CompileBreak(c, isBreak) ==
    IF Len(c.loopStack) = 0
    THEN Fail(c, IF isBreak THEN "break outside of loop" ELSE "continue outside of loop")
    ELSE LET pos == Len(currentInstructions(c))
             c1 == emit(c, OpJump, <<9999>>)
             n == Len(c.loopStack)
         IN IF isBreak
            THEN [c1 EXCEPT !.loopStack[n].breakPatches = Append(@, pos)]
            ELSE [c1 EXCEPT !.loopStack[n].continuePatches = Append(@, pos)]


\* Compiler.Compile
Compile(c, node) ==
    CASE node.node \in {"Program", "BlockStatement"} -> compileAll(c, node.Statements, 1)
      [] node.node = "ExpressionStatement" -> EmitAfter(Compile(c, node.Expression), OpPop)
      [] node.node = "OutStatement" -> EmitAfter(Compile(c, node.Value), OpOut)
      [] node.node = "ReturnStatement" -> EmitAfter(Compile(c, node.Value), OpReturnValue)
      [] node.node = "ThrowStatement" -> EmitAfter(Compile(c, node.Value), OpThrow)
      [] node.node = "SpawnStatement" -> CompileCall(c, node, OpSpawn)
      [] node.node = "CallExpression" -> CompileCall(c, node, OpCall)
      [] node.node = "SetStatement" -> CompileSet(c, node)
      [] node.node = "ImportStatement" -> CompileImport(c, node)
      [] node.node = "AssignStatement" -> CompileAssign(c, node)
      [] node.node = "InfixExpression" -> CompileInfix(c, node)
      [] node.node = "PrefixExpression" -> CompilePrefix(c, node)
      [] node.node = "PostfixExpression" -> CompilePostfix(c, node)
      [] node.node = "IntegerLiteral" ->
            emit(addConstant(c, Integer(node.Value)), OpConstant, <<Len(c.constants)>>)
      [] node.node = "StringLiteral" ->
            emit(addConstant(c, String(node.Value)), OpString, <<Len(c.constants)>>)
      [] node.node = "Boolean" ->
            emit(c, IF node.Value THEN OpTrue ELSE OpFalse, <<>>)
      [] node.node = "ArrayLiteral" ->
            EmitArray(compileAll(c, node.Elements, 1), Len(node.Elements))
      [] node.node = "HashLiteral" -> CompileHashLiteral(c, node)
      [] node.node = "IndexExpression" ->
            LET c1 == Compile(c, node.Left)
            IN IF Failed(c1) THEN c1 ELSE EmitAfter(Compile(c1, node.Index), OpIndex)
      [] node.node = "MemberExpression" ->
            LET c1 == Compile(c, node.Object)
            IN IF Failed(c1) THEN c1
               ELSE emit(addConstant(c1, String(node.Member)), OpMember,
                         <<Len(c1.constants)>>)
      [] node.node = "Identifier" -> CompileIdentifier(c, node)
      [] node.node = "FunctionLiteral" -> CompileFunctionLiteral(c, node)
      [] node.node = "TryExpression" -> CompileTry(c, node)
      [] node.node = "IfStatement" -> CompileIf(c, node)
      [] node.node = "WhileStatement" -> CompileLoop(c, node, Nil)
      [] node.node = "ForStatement" -> CompileFor(c, node)
      [] node.node = "ForInStatement" -> CompileForIn(c, node)
      [] node.node = "BreakStatement" -> CompileBreak(c, TRUE)
      [] node.node = "ContinueStatement" -> CompileBreak(c, FALSE)
      [] OTHER -> c

\* Compiler.Bytecode
Bytecode(c) ==
    [Instructions |-> currentInstructions(c), Constants |-> c.constants,
     SymbolTable |-> c.symbolTable[Len(c.symbolTable)]]

(***************************************************************************)
(* Virtual machine.                                                        *)
(*                                                                         *)
(* A VM value m holds stack (the slots written so far: a slot beyond       *)
(* Len(m.stack) still holds the nil the array was made with), sp, frames   *)
(* (frames[1..frameIndex]), catchHandlers, and the state of its Run:       *)
(* status is "running", "done" (Run returned nil), "error" (Run returned   *)
(* an error) or "panic" (a Go run-time panic ended Run); lk and tmp hold   *)
(* the mutex mode and the operand of a GetGlobal / SetGlobal in progress.  *)
(***************************************************************************)
StackSize == 2048
GlobalsSize == 65536
MaxFrames == 1024

\* the number of VMs a run may create (the main VM and the spawned workers)
MaxVMs == 4

VARIABLES
    src,        \* the program given to the compiler (an index of Programs)
    compiler,   \* the Compiler; compiler.err # "" after a failed Compile
    compiled,   \* TRUE once Compile has returned
    vms,        \* the VMs: vms[1] is the main VM, the others are spawn workers
    heap,       \* the objects behind pointers: closures and arrays
    globals,    \* the globals arrays (slots written so far): globals[1] is the
                \* array main makes, the others belong to imported modules
    mu,         \* mu[g] is the globalsMu of globals[g]: the VMs holding it in
                \* read mode, and the writer
    output,     \* the lines OpOut has written to standard output
    pools,      \* the Bytecode values loaded: pools[1] is the program's, the
                \* others are the imported modules'; Attached[i] is the pool
                \* in Fn.Constants of the function constant i, 0 for nil
    modules,    \* the module cache vm.modules of the main VM
    exited,     \* TRUE once main has returned and the process is gone
    host        \* the HTTP server of the host: the handler http_serve was
                \* given and the results RunClosureCallback has returned

vars == <<src, compiler, compiled, vms, heap, globals, mu, output, pools, modules, exited, host>>

NewFrame(cl, basePointer) == [cl |-> cl, ip |-> -1, basePointer |-> basePointer]

frameIndex(m) == Len(m.frames)
currentFrame(m) == m.frames[Len(m.frames)]

\* Frame.Instructions of the current frame
Instructions(h, m) == h[currentFrame(m).cl].Fn.Instructions

\* frame.cl.Fn.Constants of a closure object: the pool attached to its
\* function, 0 for nil
FnConstants(cl) ==
    IF cl.fnPool = 0 THEN 0 ELSE pools[cl.fnPool].Attached[cl.fnIdx + 1]

\* the pool VM.getConstants returns: that of the current frame's function if
\* it carries one, else vm.constants
CurrentPool(m) ==
    IF frameIndex(m) > 0 /\ FnConstants(heap[currentFrame(m).cl]) # 0
    THEN FnConstants(heap[currentFrame(m).cl])
    ELSE m.constants

\* VM.getConstants
getConstants(m) == pools[CurrentPool(m)].Constants

RunError(m, msg) == [m EXCEPT !.status = "error", !.err = msg]
RunPanic(m) == [m EXCEPT !.status = "panic", !.err = "runtime panic"]
Ok(m) == m.status = "running"

\* vm.stack[i]
StackAt(m, i) == IF i >= 0 /\ i + 1 <= Len(m.stack) THEN m.stack[i + 1] ELSE GoNil
ValidSlot(i) == i >= 0 /\ i < StackSize

\* vm.stack[i] = obj
StackSet(stack, i, obj) ==
    [j \in 1..(IF i + 1 > Len(stack) THEN i + 1 ELSE Len(stack)) |->
        IF j = i + 1 THEN obj ELSE IF j <= Len(stack) THEN stack[j] ELSE GoNil]

\* VM.push where the caller returns the error
push(m, obj) ==
    IF ~Ok(m) THEN m
    ELSE IF m.sp >= StackSize THEN RunError(m, "stack overflow")
    ELSE [m EXCEPT !.stack = StackSet(m.stack, m.sp, obj), !.sp = m.sp + 1]

\* VM.push where the caller drops the error
pushIgnoringError(m, obj) ==
    IF ~Ok(m) \/ m.sp >= StackSize THEN m
    ELSE [m EXCEPT !.stack = StackSet(m.stack, m.sp, obj), !.sp = m.sp + 1]

\* VM.pop: the VM afterwards; the value popped is Top(m)
pop(m) ==
    IF ~Ok(m) THEN m
    ELSE IF ~ValidSlot(m.sp - 1) THEN RunPanic(m)
    ELSE [m EXCEPT !.sp = m.sp - 1]

Top(m) == StackAt(m, m.sp - 1)

setIp(m, ip) == [m EXCEPT !.frames[Len(m.frames)].ip = ip]
addIp(m, n) == [m EXCEPT !.frames[Len(m.frames)].ip = @ + n]

isTruthy(obj) ==
    CASE obj.t = "BOOLEAN" -> obj.bv
      [] obj.t = "NULL" -> FALSE
      [] OTHER -> TRUE

nativeBoolToObj(b) == Bool(b)

\* Go's integer division truncates toward zero
GoDiv(a, b) ==
    IF (a >= 0) = (b > 0) THEN (IF a >= 0 THEN a ELSE -a) \div (IF b > 0 THEN b ELSE -b)
    ELSE -((IF a >= 0 THEN a ELSE -a) \div (IF b > 0 THEN b ELSE -b))

\* Object.Inspect; a nil interface has no Inspect (see HasNil)
RECURSIVE Inspect(_, _)
RECURSIVE InspectAll(_, _, _)
InspectAll(h, elems, i) ==
    IF i > Len(elems) THEN ""
    ELSE (IF i > 1 THEN ", " ELSE "") \o Inspect(h, elems[i]) \o InspectAll(h, elems, i + 1)

Inspect(h, obj) ==
    CASE obj.t = "INTEGER" -> ToString(obj.iv)
      [] obj.t = "STRING" -> obj.sv
      [] obj.t = "BOOLEAN" -> IF obj.bv THEN "true" ELSE "false"
      [] obj.t = "NULL" -> "null"
      [] obj.t = "ARRAY" -> "[" \o InspectAll(h, h[obj.ref].Elements, 1) \o "]"
      [] obj.t = "CLOSURE" -> "Closure[" \o ToString(obj.ref) \o "]"
      [] obj.t = "COMPILED_FUNCTION" -> "CompiledFunction"
      [] obj.t = "BUILTIN" -> "builtin function"
      [] obj.t = "ERROR" -> "ERROR: " \o obj.Message
      [] OTHER -> "nil"

\* an Inspect or Type call on obj, or on an element Inspect descends to, hits nil
RECURSIVE HasNil(_, _)
HasNil(h, obj) ==
    \/ obj.t = "nil"
    \/ /\ obj.t = "ARRAY"
       /\ \E i \in 1..Len(h[obj.ref].Elements) : HasNil(h, h[obj.ref].Elements[i])

\* VM.executeIntegerBinaryOp (the operands of these programs stay far from the
\* int64 limits, so no result wraps around)
executeIntegerBinaryOp(m, op, left, right) ==
    CASE op = OpAdd -> push(m, Integer(left + right))
      [] op = OpSub -> push(m, Integer(left - right))
      [] op = OpMul -> push(m, Integer(left * right))
      [] op = OpDiv -> IF right = 0 THEN RunPanic(m)
                       ELSE push(m, Integer(GoDiv(left, right)))
      [] op = OpMod -> IF right = 0 THEN RunError(m, "modulo by zero")
                       ELSE push(m, Integer(left - right * GoDiv(left, right)))
      [] op = OpGreaterThan -> push(m, nativeBoolToObj(left > right))
      [] op = OpEqual -> push(m, nativeBoolToObj(left = right))
      [] op = OpNotEqual -> push(m, nativeBoolToObj(left # right))
      [] OTHER -> RunError(m, "unknown integer operator")

\* VM.executeBinaryOperation (Float operands are not part of this model)
executeBinaryOperation(h, m, op) ==
    LET right == Top(m)
        m1 == pop(m)
        left == Top(m1)
        m2 == pop(m1)
    IN IF ~Ok(m2) THEN m2
       ELSE IF left.t = "INTEGER" /\ right.t = "INTEGER"
       THEN executeIntegerBinaryOp(m2, op, left.iv, right.iv)
       ELSE IF left.t = "STRING" /\ right.t = "STRING" /\ op = OpAdd
       THEN push(m2, String(left.sv \o right.sv))
       ELSE IF left.t = "STRING" /\ op = OpAdd
       THEN IF HasNil(h, right) THEN RunPanic(m2)
            ELSE push(m2, String(left.sv \o Inspect(h, right)))
       ELSE IF right.t = "STRING" /\ op = OpAdd
       THEN IF HasNil(h, left) THEN RunPanic(m2)
            ELSE push(m2, String(Inspect(h, left) \o right.sv))
       ELSE IF left.t = "BOOLEAN" /\ right.t = "BOOLEAN" /\ op \in {OpEqual, OpNotEqual}
       THEN push(m2, nativeBoolToObj((left.bv = right.bv) = (op = OpEqual)))
       ELSE IF left.t = "nil" \/ right.t = "nil" THEN RunPanic(m2)
       ELSE RunError(m2, "unsupported types for binary operation")

(***************************************************************************)
(* The programs the model compiles and runs.                               *)
(***************************************************************************)
Id(name) == Identifier(name)
Call(f, args) == CallExpression(Id(f), args)
Fn(params, stmts) == FunctionLiteral(params, BlockStatement(stmts))
Block(stmts) == BlockStatement(stmts)

\* set add = fn(a, b) { set t = a + b; return t; }; set nop = fn() { };
\* out add(2, 3); out nop(); out 1 + add(1, 1);
ProgCall ==
    Program(<< SetStatement("add", Fn(<<"a", "b">>,
                   << SetStatement("t", InfixExpression(Id("a"), "+", Id("b"))),
                      ReturnStatement(Id("t")) >>)),
               SetStatement("nop", Fn(<<>>, <<>>)),
               OutStatement(Call("add", <<IntegerLiteral(2), IntegerLiteral(3)>>)),
               OutStatement(Call("nop", <<>>)),
               OutStatement(InfixExpression(IntegerLiteral(1), "+",
                   Call("add", <<IntegerLiteral(1), IntegerLiteral(1)>>))) >>)

\* set f = fn(c) { if (c) { return 1; } }; out f(true); out f(false); out 7;
ProgIfReturn ==
    Program(<< SetStatement("f", Fn(<<"c">>,
                   << IfStatement(Id("c"), Block(<<ReturnStatement(IntegerLiteral(1))>>),
                                  Nil) >>)),
               OutStatement(Call("f", <<Boolean(TRUE)>>)),
               OutStatement(Call("f", <<Boolean(FALSE)>>)),
               OutStatement(IntegerLiteral(7)) >>)

\* set f = fn() { set a = 1; set b = 2; out 1; out 2; while (a > 5) { } };
\* out f(); out 7;
ProgLoopTail ==
    Program(<< SetStatement("f", Fn(<<>>,
                   << SetStatement("a", IntegerLiteral(1)),
                      SetStatement("b", IntegerLiteral(2)),
                      OutStatement(IntegerLiteral(1)),
                      OutStatement(IntegerLiteral(2)),
                      WhileStatement(InfixExpression(Id("a"), ">", IntegerLiteral(5)),
                                     Block(<<>>)) >>)),
               OutStatement(Call("f", <<>>)),
               OutStatement(IntegerLiteral(7)) >>)

\* set f = 0; while (f == 0) { f = fn() { break; }; }
ProgBreakInFn ==
    Program(<< SetStatement("f", IntegerLiteral(0)),
               WhileStatement(InfixExpression(Id("f"), "==", IntegerLiteral(0)),
                   Block(<< AssignStatement("f", Fn(<<>>, <<BreakStatement>>)) >>)) >>)

\* set r = try { throw "boom"; 1 } catch (e) { e + "!" }; out r;
ProgTry ==
    Program(<< SetStatement("r", TryExpression(
                   Block(<< ThrowStatement(StringLiteral("boom")),
                            ExpressionStatement(IntegerLiteral(1)) >>),
                   Id("e"),
                   Block(<< ExpressionStatement(
                               InfixExpression(Id("e"), "+", StringLiteral("!"))) >>))),
               OutStatement(Id("r")) >>)

\* set r = try { 1 } catch (e) { 2 }; out r;
ProgTryNoThrow ==
    Program(<< SetStatement("r", TryExpression(
                   Block(<< ExpressionStatement(IntegerLiteral(1)) >>),
                   Id("e"),
                   Block(<< ExpressionStatement(IntegerLiteral(2)) >>))),
               OutStatement(Id("r")) >>)

\* set r = try { throw "x"; 1 } catch { 2 }; out r;
ProgTryNoParam ==
    Program(<< SetStatement("r", TryExpression(
                   Block(<< ThrowStatement(StringLiteral("x")),
                            ExpressionStatement(IntegerLiteral(1)) >>),
                   Nil,
                   Block(<< ExpressionStatement(IntegerLiteral(2)) >>))),
               OutStatement(Id("r")) >>)

\* out 1; throw "x"; out 2;
ProgUncaught ==
    Program(<< OutStatement(IntegerLiteral(1)),
               ThrowStatement(StringLiteral("x")),
               OutStatement(IntegerLiteral(2)) >>)

\* set f = fn() { throw "deep"; }; set r = try { f() } catch { 0 }; out r;
ProgThrowInCallee ==
    Program(<< SetStatement("f", Fn(<<>>, <<ThrowStatement(StringLiteral("deep"))>>)),
               SetStatement("r", TryExpression(
                   Block(<< ExpressionStatement(Call("f", <<>>)) >>),
                   Nil,
                   Block(<< ExpressionStatement(IntegerLiteral(0)) >>))),
               OutStatement(Id("r")) >>)

\* out (0 || "fallback"); out (true && 42); out (false || 3); out (7 || 8);
ProgShortCircuit ==
    Program(<< OutStatement(InfixExpression(IntegerLiteral(0), "||",
                                            StringLiteral("fallback"))),
               OutStatement(InfixExpression(Boolean(TRUE), "&&", IntegerLiteral(42))),
               OutStatement(InfixExpression(Boolean(FALSE), "||", IntegerLiteral(3))),
               OutStatement(InfixExpression(IntegerLiteral(7), "||", IntegerLiteral(8))) >>)

\* set xs = [10, 20, 30]; set s = 0; for x in xs { s = s + x; } out s;
ProgForIn ==
    Program(<< SetStatement("xs", ArrayLiteral(<< IntegerLiteral(10), IntegerLiteral(20),
                                                  IntegerLiteral(30) >>)),
               SetStatement("s", IntegerLiteral(0)),
               ForInStatement("x", Id("xs"),
                   Block(<< AssignStatement("s", InfixExpression(Id("s"), "+", Id("x"))) >>)),
               OutStatement(Id("s")) >>)

\* set makeCounter = fn() { set c = 0; return fn() { c = c + 1; return c; }; };
\* set f = makeCounter(); set g = makeCounter();
\* out f(); out f(); out g(); out f();
ProgCounter ==
    Program(<< SetStatement("makeCounter", Fn(<<>>,
                   << SetStatement("c", IntegerLiteral(0)),
                      ReturnStatement(Fn(<<>>,
                          << AssignStatement("c", InfixExpression(Id("c"), "+",
                                                                  IntegerLiteral(1))),
                             ReturnStatement(Id("c")) >>)) >>)),
               SetStatement("f", Call("makeCounter", <<>>)),
               SetStatement("g", Call("makeCounter", <<>>)),
               OutStatement(Call("f", <<>>)),
               OutStatement(Call("f", <<>>)),
               OutStatement(Call("g", <<>>)),
               OutStatement(Call("f", <<>>)) >>)

\* set mk = fn() { set c = 0; set inc = fn() { c = c + 1; };
\*                 set get = fn() { return c; }; inc(); return get(); };
\* out mk();
ProgShared ==
    Program(<< SetStatement("mk", Fn(<<>>,
                   << SetStatement("c", IntegerLiteral(0)),
                      SetStatement("inc", Fn(<<>>,
                          << AssignStatement("c", InfixExpression(Id("c"), "+",
                                                                  IntegerLiteral(1))) >>)),
                      SetStatement("get", Fn(<<>>, << ReturnStatement(Id("c")) >>)),
                      ExpressionStatement(Call("inc", <<>>)),
                      ReturnStatement(Call("get", <<>>)) >>)),
               OutStatement(Call("mk", <<>>)) >>)

\* set g = 0; spawn fn() { g = 1; }(); spawn fn(a) { g = g + a; }(2); out g;
ProgSpawn ==
    Program(<< SetStatement("g", IntegerLiteral(0)),
               SpawnStatement(Fn(<<>>, << AssignStatement("g", IntegerLiteral(1)) >>), <<>>),
               SpawnStatement(Fn(<<"a">>,
                   << AssignStatement("g", InfixExpression(Id("g"), "+", Id("a"))) >>),
                   <<IntegerLiteral(2)>>),
               OutStatement(Id("g")) >>)

\* set xs = [1, 2]; out len(xs); out xs[1]; xs.push(3); out xs.len();
\* set i = 0; i++; out -i; out !true; out 10 % 3;
\* for (set k = 0; k < 3; k++) { if (k == 1) { continue; } else { out k; } break; }
ProgMisc ==
    Program(<< SetStatement("xs", ArrayLiteral(<<IntegerLiteral(1), IntegerLiteral(2)>>)),
               OutStatement(Call("len", <<Id("xs")>>)),
               OutStatement(IndexExpression(Id("xs"), IntegerLiteral(1))),
               ExpressionStatement(CallExpression(MemberExpression(Id("xs"), "push"),
                                                  <<IntegerLiteral(3)>>)),
               OutStatement(CallExpression(MemberExpression(Id("xs"), "len"), <<>>)),
               SetStatement("i", IntegerLiteral(0)),
               ExpressionStatement(PostfixExpression(Id("i"), "++")),
               OutStatement(PrefixExpression("-", Id("i"))),
               OutStatement(PrefixExpression("!", Boolean(TRUE))),
               OutStatement(InfixExpression(IntegerLiteral(10), "%", IntegerLiteral(3))),
               ForStatement(SetStatement("k", IntegerLiteral(0)),
                            InfixExpression(Id("k"), "<", IntegerLiteral(3)),
                            ExpressionStatement(PostfixExpression(Id("k"), "++")),
                            Block(<< IfStatement(
                                        InfixExpression(Id("k"), "==", IntegerLiteral(1)),
                                        Block(<<ContinueStatement>>),
                                        Block(<<OutStatement(Id("k"))>>)),
                                     BreakStatement >>)) >>)

\* set r = try { try { throw "in"; 1 } catch { throw "out"; 5 } } catch { 9 }; out r;
ProgNestedTry ==
    Program(<< SetStatement("r", TryExpression(
                   Block(<< ExpressionStatement(TryExpression(
                               Block(<< ThrowStatement(StringLiteral("in")),
                                        ExpressionStatement(IntegerLiteral(1)) >>),
                               Nil,
                               Block(<< ThrowStatement(StringLiteral("out")),
                                        ExpressionStatement(IntegerLiteral(5)) >>))) >>),
                   Nil,
                   Block(<< ExpressionStatement(IntegerLiteral(9)) >>))),
               OutStatement(Id("r")) >>)

\* set g = 0; spawn fn() { g = 1; }(); out g;
ProgSpawnOne ==
    Program(<< SetStatement("g", IntegerLiteral(0)),
               SpawnStatement(Fn(<<>>, << AssignStatement("g", IntegerLiteral(1)) >>), <<>>),
               OutStatement(Id("g")) >>)

\* set x = 5; spawn x(1); out 7;
ProgSpawnBad ==
    Program(<< SetStatement("x", IntegerLiteral(5)),
               SpawnStatement(Id("x"), <<IntegerLiteral(1)>>),
               OutStatement(IntegerLiteral(7)) >>)

\* set g = 0; spawn fn() { throw "x"; }(); spawn fn(a) { out a; }(); out g;
ProgWorkerFails ==
    Program(<< SetStatement("g", IntegerLiteral(0)),
               SpawnStatement(Fn(<<>>, << ThrowStatement(StringLiteral("x")) >>), <<>>),
               SpawnStatement(Fn(<<"a">>, << OutStatement(Id("a")) >>), <<>>),
               OutStatement(Id("g")) >>)

\* set h = fn(a) { }; spawn fn() { h(); }(); spawn fn() { false && 1; }(); out 7;
ProgWorkerFails2 ==
    Program(<< SetStatement("h", Fn(<<"a">>, <<>>)),
               SpawnStatement(Fn(<<>>, << ExpressionStatement(Call("h", <<>>)) >>), <<>>),
               SpawnStatement(Fn(<<>>, << ExpressionStatement(
                   InfixExpression(Boolean(FALSE), "&&", IntegerLiteral(1))) >>), <<>>),
               OutStatement(IntegerLiteral(7)) >>)

\* set f = fn(a) { return a; }; out 1; f(); out 2;
ProgCallFew ==
    Program(<< SetStatement("f", Fn(<<"a">>, << ReturnStatement(Id("a")) >>)),
               OutStatement(IntegerLiteral(1)),
               ExpressionStatement(Call("f", <<>>)),
               OutStatement(IntegerLiteral(2)) >>)

\* set f = fn(a) { return a; }; out 1; f(3, 4); out 2;
ProgCallMany ==
    Program(<< SetStatement("f", Fn(<<"a">>, << ReturnStatement(Id("a")) >>)),
               OutStatement(IntegerLiteral(1)),
               ExpressionStatement(Call("f", <<IntegerLiteral(3), IntegerLiteral(4)>>)),
               OutStatement(IntegerLiteral(2)) >>)

\* set x = 5; out 1; x(3); out 2;
ProgCallNonFn ==
    Program(<< SetStatement("x", IntegerLiteral(5)),
               OutStatement(IntegerLiteral(1)),
               ExpressionStatement(Call("x", <<IntegerLiteral(3)>>)),
               OutStatement(IntegerLiteral(2)) >>)

\* false || 1; false || 2; out 7;
ProgOrStatements ==
    Program(<< ExpressionStatement(
                   InfixExpression(Boolean(FALSE), "||", IntegerLiteral(1))),
               ExpressionStatement(
                   InfixExpression(Boolean(FALSE), "||", IntegerLiteral(2))),
               OutStatement(IntegerLiteral(7)) >>)

\* the statements set a1 = 0; ... set an = 0;
SetLocals(n) ==
    [i \in 1..n |-> SetStatement("a" \o ToString(i), IntegerLiteral(0))]

\* the number of locals of the function of ProgDeepLocals
ManyLocals == 120

\* set f = 0; f = fn() { f(); set a1 = 0; ... set a254 = 0; }; f();
ProgDeepLocals ==
    Program(<< SetStatement("f", IntegerLiteral(0)),
               AssignStatement("f", Fn(<<>>,
                   <<ExpressionStatement(Call("f", <<>>))>> \o SetLocals(ManyLocals))),
               ExpressionStatement(Call("f", <<>>)) >>)

\* set f = 0; f = fn() { f(); }; f();
ProgDeepFrames ==
    Program(<< SetStatement("f", IntegerLiteral(0)),
               AssignStatement("f", Fn(<<>>, <<ExpressionStatement(Call("f", <<>>))>>)),
               ExpressionStatement(Call("f", <<>>)) >>)

\* b.xn:  out "b"; set add = fn(a) { return a + 100; };
\*        set fns = [fn() { return 8; }];
\*        set mk = fn() { set c = fn() { return 9; }; return fn() { return c(); }; };
\*        set g = mk();
ModuleB ==
    Program(<< OutStatement(StringLiteral("b")),
               SetStatement("add", Fn(<<"a">>,
                   << ReturnStatement(InfixExpression(Id("a"), "+", IntegerLiteral(100))) >>)),
               SetStatement("fns", ArrayLiteral(
                   << Fn(<<>>, << ReturnStatement(IntegerLiteral(8)) >>) >>)),
               SetStatement("mk", Fn(<<>>,
                   << SetStatement("c", Fn(<<>>, << ReturnStatement(IntegerLiteral(9)) >>)),
                      ReturnStatement(Fn(<<>>, << ReturnStatement(Call("c", <<>>)) >>)) >>)),
               SetStatement("g", Call("mk", <<>>)) >>)

\* a.xn:  import "b"; out "a"; set own = fn() { return 5; };
ModuleA ==
    Program(<< ImportStatement(StringLiteral("b"), Nil),
               OutStatement(StringLiteral("a")),
               SetStatement("own", Fn(<<>>, << ReturnStatement(IntegerLiteral(5)) >>)) >>)

\* c.xn:  set mk = fn() { return fn() { return 9; }; };
ModuleC ==
    Program(<< SetStatement("mk", Fn(<<>>,
                   << ReturnStatement(Fn(<<>>,
                          << ReturnStatement(IntegerLiteral(9)) >>)) >>)) >>)

\* d.xn:  set base = 100; set get = fn() { return base; };
ModuleD ==
    Program(<< SetStatement("base", IntegerLiteral(100)),
               SetStatement("get", Fn(<<>>, << ReturnStatement(Id("base")) >>)) >>)

\* self.xn:  out "s"; import "self"; out "loaded";
ModuleSelf ==
    Program(<< OutStatement(StringLiteral("s")),
               ImportStatement(StringLiteral("self"), Nil),
               OutStatement(StringLiteral("loaded")) >>)

\* p.xn:  out "p"; import "q";      q.xn:  out "q"; import "p";
ModuleP ==
    Program(<< OutStatement(StringLiteral("p")),
               ImportStatement(StringLiteral("q"), Nil) >>)
ModuleQ ==
    Program(<< OutStatement(StringLiteral("q")),
               ImportStatement(StringLiteral("p"), Nil) >>)

\* the files ioutil.ReadFile finds, each with what lexer and parser make of
\* it: the parser's errors, or the program.  badcompile.xn is
\* out nothere;  and badrun.xn is  out "r"; throw "x";
FileSystem ==
    ("a.xn" :> [errors |-> FALSE, program |-> ModuleA])
    @@ ("b.xn" :> [errors |-> FALSE, program |-> ModuleB])
    @@ ("badparse.xn" :> [errors |-> TRUE, program |-> Program(<<>>)])
    @@ ("badcompile.xn" :>
           [errors |-> FALSE, program |-> Program(<< OutStatement(Id("nothere")) >>)])
    @@ ("badrun.xn" :>
           [errors |-> FALSE,
            program |-> Program(<< OutStatement(StringLiteral("r")),
                                   ThrowStatement(StringLiteral("x")) >>)])
    @@ ("self.xn" :> [errors |-> FALSE, program |-> ModuleSelf])
    @@ ("c.xn" :> [errors |-> FALSE, program |-> ModuleC])
    @@ ("d.xn" :> [errors |-> FALSE, program |-> ModuleD])
    @@ ("p.xn" :> [errors |-> FALSE, program |-> ModuleP])
    @@ ("q.xn" :> [errors |-> FALSE, program |-> ModuleQ])

\* import "a"; import "b.xn"; import "b" as b2;
\* out a.own(); out b.add(1); out b.fns[0](); out b.g();
ProgImport ==
    Program(<< ImportStatement(StringLiteral("a"), Nil),
               ImportStatement(StringLiteral("b.xn"), Nil),
               ImportStatement(StringLiteral("b"), Identifier("b2")),
               OutStatement(CallExpression(MemberExpression(Id("a"), "own"), <<>>)),
               OutStatement(CallExpression(MemberExpression(Id("b"), "add"),
                                           <<IntegerLiteral(1)>>)),
               OutStatement(CallExpression(
                   IndexExpression(MemberExpression(Id("b"), "fns"), IntegerLiteral(0)),
                   <<>>)),
               OutStatement(CallExpression(MemberExpression(Id("b"), "g"), <<>>)) >>)

\* import "b"; import "a"; out a.b.add(2);
ProgImportShared ==
    Program(<< ImportStatement(StringLiteral("b"), Nil),
               ImportStatement(StringLiteral("a"), Nil),
               OutStatement(CallExpression(
                   MemberExpression(MemberExpression(Id("a"), "b"), "add"),
                   <<IntegerLiteral(2)>>)) >>)

\* out 1; import <path> as m; out 2;
ImportOf(path) ==
    Program(<< OutStatement(IntegerLiteral(1)),
               ImportStatement(path, Identifier("m")),
               OutStatement(IntegerLiteral(2)) >>)

ProgImportNonString == ImportOf(IntegerLiteral(5))
ProgImportMissing == ImportOf(StringLiteral("nofile"))
ProgImportParse == ImportOf(StringLiteral("badparse"))
ProgImportCompile == ImportOf(StringLiteral("badcompile.xn"))
ProgImportRuntime == ImportOf(StringLiteral("badrun"))

\* spawn fn() { import "b"; }(); out 1;
ProgWorkerImport ==
    Program(<< SpawnStatement(Fn(<<>>, << ImportStatement(StringLiteral("b"), Nil) >>),
                              <<>>),
               OutStatement(IntegerLiteral(1)) >>)

\* out 1; out 1 / 0; out 2;
ProgDivZero ==
    Program(<< OutStatement(IntegerLiteral(1)),
               OutStatement(InfixExpression(IntegerLiteral(1), "/", IntegerLiteral(0))),
               OutStatement(IntegerLiteral(2)) >>)

\* out 1; out 7 % 0; out 2;
ProgModZero ==
    Program(<< OutStatement(IntegerLiteral(1)),
               OutStatement(InfixExpression(IntegerLiteral(7), "%", IntegerLiteral(0))),
               OutStatement(IntegerLiteral(2)) >>)

\* set xs = [10, 20]; out xs[0]; out xs[1]; out xs[2]; out xs[-1]; out xs["a"]; out 9;
ProgIndex ==
    Program(<< SetStatement("xs", ArrayLiteral(<<IntegerLiteral(10), IntegerLiteral(20)>>)),
               OutStatement(IndexExpression(Id("xs"), IntegerLiteral(0))),
               OutStatement(IndexExpression(Id("xs"), IntegerLiteral(1))),
               OutStatement(IndexExpression(Id("xs"), IntegerLiteral(2))),
               OutStatement(IndexExpression(Id("xs"),
                                            PrefixExpression("-", IntegerLiteral(1)))),
               OutStatement(IndexExpression(Id("xs"), StringLiteral("a"))),
               OutStatement(IntegerLiteral(9)) >>)

\* out 1; out 5[0]; out 2;
ProgIndexInteger ==
    Program(<< OutStatement(IntegerLiteral(1)),
               OutStatement(IndexExpression(IntegerLiteral(5), IntegerLiteral(0))),
               OutStatement(IntegerLiteral(2)) >>)

\* set h = {"a": 1, 2: "two", true: 3};
\* out h["a"]; out h[2]; out h[true]; out h["b"]; out h.a; out h[[1]]; out 9;
ProgHash ==
    Program(<< SetStatement("h", HashLiteral(
                   << [Key |-> StringLiteral("a"), Value |-> IntegerLiteral(1)],
                      [Key |-> IntegerLiteral(2), Value |-> StringLiteral("two")],
                      [Key |-> Boolean(TRUE), Value |-> IntegerLiteral(3)] >>)),
               OutStatement(IndexExpression(Id("h"), StringLiteral("a"))),
               OutStatement(IndexExpression(Id("h"), IntegerLiteral(2))),
               OutStatement(IndexExpression(Id("h"), Boolean(TRUE))),
               OutStatement(IndexExpression(Id("h"), StringLiteral("b"))),
               OutStatement(MemberExpression(Id("h"), "a")),
               OutStatement(IndexExpression(Id("h"),
                                            ArrayLiteral(<<IntegerLiteral(1)>>))),
               OutStatement(IntegerLiteral(9)) >>)

\* out 1; set h = {[1]: 2}; out 2;
ProgHashBadKey ==
    Program(<< OutStatement(IntegerLiteral(1)),
               SetStatement("h", HashLiteral(
                   << [Key |-> ArrayLiteral(<<IntegerLiteral(1)>>),
                       Value |-> IntegerLiteral(2)] >>)),
               OutStatement(IntegerLiteral(2)) >>)

\* out 1; break; out 2;
ProgBreakOutside ==
    Program(<< OutStatement(IntegerLiteral(1)), BreakStatement,
               OutStatement(IntegerLiteral(2)) >>)

\* out 1; if (true) { continue; } out 2;
ProgContinueOutside ==
    Program(<< OutStatement(IntegerLiteral(1)),
               IfStatement(Boolean(TRUE), Block(<<ContinueStatement>>), Nil),
               OutStatement(IntegerLiteral(2)) >>)

\* while (false) { out 1; } break; out 2;
ProgBreakAfterLoop ==
    Program(<< WhileStatement(Boolean(FALSE), Block(<<OutStatement(IntegerLiteral(1))>>)),
               BreakStatement,
               OutStatement(IntegerLiteral(2)) >>)

\* set f = fn() { continue; }; out 2;
ProgContinueInFn ==
    Program(<< SetStatement("f", Fn(<<>>, <<ContinueStatement>>)),
               OutStatement(IntegerLiteral(2)) >>)

\* const x = 1; x = 2; out x;
ProgConstAssign ==
    Program(<< ConstStatement("x", IntegerLiteral(1)),
               AssignStatement("x", IntegerLiteral(2)),
               OutStatement(Id("x")) >>)

\* const x = 1; x++; out x;
ProgConstPostfix ==
    Program(<< ConstStatement("x", IntegerLiteral(1)),
               ExpressionStatement(PostfixExpression(Id("x"), "++")),
               OutStatement(Id("x")) >>)

\* const x = 1; set f = fn() { x = 2; }; f(); out x;
ProgConstInFn ==
    Program(<< ConstStatement("x", IntegerLiteral(1)),
               SetStatement("f", Fn(<<>>, <<AssignStatement("x", IntegerLiteral(2))>>)),
               ExpressionStatement(Call("f", <<>>)),
               OutStatement(Id("x")) >>)

\* set f = fn() { const y = 1; y--; out y; }; f();
ProgConstLocal ==
    Program(<< SetStatement("f", Fn(<<>>,
                   << ConstStatement("y", IntegerLiteral(1)),
                      ExpressionStatement(PostfixExpression(Id("y"), "--")),
                      OutStatement(Id("y")) >>)),
               ExpressionStatement(Call("f", <<>>)) >>)

\* set f = fn() { const y = 1; set g = fn() { y = 2; out y; }; g(); out y; }; f();
ProgConstCaptured ==
    Program(<< SetStatement("f", Fn(<<>>,
                   << ConstStatement("y", IntegerLiteral(1)),
                      SetStatement("g", Fn(<<>>,
                          << AssignStatement("y", IntegerLiteral(2)),
                             OutStatement(Id("y")) >>)),
                      ExpressionStatement(Call("g", <<>>)),
                      OutStatement(Id("y")) >>)),
               ExpressionStatement(Call("f", <<>>)) >>)

\* for (set k = 0; k < 5; k++) {
\*     if (k == 1) { k = 3; continue; }  out k;  if (k == 4) { break; }
\* }
\* out 9;
ProgForContinue ==
    Program(<< ForStatement(SetStatement("k", IntegerLiteral(0)),
                            InfixExpression(Id("k"), "<", IntegerLiteral(5)),
                            ExpressionStatement(PostfixExpression(Id("k"), "++")),
                            Block(<< IfStatement(
                                        InfixExpression(Id("k"), "==", IntegerLiteral(1)),
                                        Block(<< AssignStatement("k", IntegerLiteral(3)),
                                                 ContinueStatement >>),
                                        Nil),
                                     OutStatement(Id("k")),
                                     IfStatement(
                                        InfixExpression(Id("k"), "==", IntegerLiteral(4)),
                                        Block(<<BreakStatement>>),
                                        Nil) >>)),
               OutStatement(IntegerLiteral(9)) >>)

\* for (set k = 0; k < 3; k++) { if (k == 1) { k = 7; continue; }  out k; }
\* out 9;
ProgForContinueExit ==
    Program(<< ForStatement(SetStatement("k", IntegerLiteral(0)),
                            InfixExpression(Id("k"), "<", IntegerLiteral(3)),
                            ExpressionStatement(PostfixExpression(Id("k"), "++")),
                            Block(<< IfStatement(
                                        InfixExpression(Id("k"), "==", IntegerLiteral(1)),
                                        Block(<< AssignStatement("k", IntegerLiteral(7)),
                                                 ContinueStatement >>),
                                        Nil),
                                     OutStatement(Id("k")) >>)),
               OutStatement(IntegerLiteral(9)) >>)

\* set a = [1]; set b = a; b.push(2); out len(a); out a[1];
\* set c = push(a, 3); out len(a); out len(b); out len(c); out c[2];
ProgPush ==
    Program(<< SetStatement("a", ArrayLiteral(<<IntegerLiteral(1)>>)),
               SetStatement("b", Id("a")),
               ExpressionStatement(CallExpression(MemberExpression(Id("b"), "push"),
                                                  <<IntegerLiteral(2)>>)),
               OutStatement(Call("len", <<Id("a")>>)),
               OutStatement(IndexExpression(Id("a"), IntegerLiteral(1))),
               SetStatement("c", Call("push", <<Id("a"), IntegerLiteral(3)>>)),
               OutStatement(Call("len", <<Id("a")>>)),
               OutStatement(Call("len", <<Id("b")>>)),
               OutStatement(Call("len", <<Id("c")>>)),
               OutStatement(IndexExpression(Id("c"), IntegerLiteral(2))) >>)

\* set f = fn() { set a = 1; set b = 2;
\*     set g = fn() { out a; out b; set h = fn() { out b; out a; }; h(); }; g(); };
\* f();
ProgCaptureOrder ==
    Program(<< SetStatement("f", Fn(<<>>,
                   << SetStatement("a", IntegerLiteral(1)),
                      SetStatement("b", IntegerLiteral(2)),
                      SetStatement("g", Fn(<<>>,
                          << OutStatement(Id("a")),
                             OutStatement(Id("b")),
                             SetStatement("h", Fn(<<>>,
                                 << OutStatement(Id("b")),
                                    OutStatement(Id("a")) >>)),
                             ExpressionStatement(Call("h", <<>>)) >>)),
                      ExpressionStatement(Call("g", <<>>)) >>)),
               ExpressionStatement(Call("f", <<>>)) >>)

\* import "self"; out "done";
ProgImportSelf ==
    Program(<< ImportStatement(StringLiteral("self"), Nil),
               OutStatement(StringLiteral("done")) >>)

\* import "p"; out "done";
ProgImportCycle ==
    Program(<< ImportStatement(StringLiteral("p"), Nil),
               OutStatement(StringLiteral("done")) >>)

\* http_serve(80, fn(req) { return "hi"; });
ProgServe ==
    Program(<< ExpressionStatement(Call("http_serve",
                   << IntegerLiteral(80),
                      Fn(<<"req">>, << ReturnStatement(StringLiteral("hi")) >>) >>)) >>)

\* http_serve(80, fn(req) { set x = 5; return x + 1; });
ProgServeLocal ==
    Program(<< ExpressionStatement(Call("http_serve",
                   << IntegerLiteral(80),
                      Fn(<<"req">>,
                         << SetStatement("x", IntegerLiteral(5)),
                            ReturnStatement(InfixExpression(Id("x"), "+",
                                                            IntegerLiteral(1))) >>) >>)) >>)

\* http_serve(80, fn(req) { });
ProgServeNoValue ==
    Program(<< ExpressionStatement(Call("http_serve",
                   << IntegerLiteral(80), Fn(<<"req">>, <<>>) >>)) >>)

\* http_serve(80, fn(req) { throw "x"; });
ProgServeThrow ==
    Program(<< ExpressionStatement(Call("http_serve",
                   << IntegerLiteral(80),
                      Fn(<<"req">>, << ThrowStatement(StringLiteral("x")) >>) >>)) >>)

\* set f = fn() { try { return 1; } catch { 0 }; }; out f(); throw "late";
ProgReturnInTry ==
    Program(<< SetStatement("f", Fn(<<>>,
                   << ExpressionStatement(TryExpression(
                          Block(<< ReturnStatement(IntegerLiteral(1)) >>),
                          Nil,
                          Block(<< ExpressionStatement(IntegerLiteral(0)) >>))) >>)),
               OutStatement(Call("f", <<>>)),
               ThrowStatement(StringLiteral("late")) >>)

\* set g = 0; spawn fn() { g = g + 1; }(); g = g + 1; out g;
ProgLostUpdate ==
    Program(<< SetStatement("g", IntegerLiteral(0)),
               SpawnStatement(Fn(<<>>,
                   << AssignStatement("g", InfixExpression(Id("g"), "+",
                                                           IntegerLiteral(1))) >>), <<>>),
               AssignStatement("g", InfixExpression(Id("g"), "+", IntegerLiteral(1))),
               OutStatement(Id("g")) >>)

\* import "c"; set h = c.mk(); out h();
ProgImportFactory ==
    Program(<< ImportStatement(StringLiteral("c"), Nil),
               SetStatement("h", CallExpression(MemberExpression(Id("c"), "mk"), <<>>)),
               OutStatement(Call("h", <<>>)) >>)

\* set mine = 7; import "d"; out d.get();
ProgImportGlobal ==
    Program(<< SetStatement("mine", IntegerLiteral(7)),
               ImportStatement(StringLiteral("d"), Nil),
               OutStatement(CallExpression(MemberExpression(Id("d"), "get"), <<>>)) >>)

\* set mk = fn() { set n = 0; return fn() { n = n + 1; return n; }; };
\* set c = mk(); spawn c(); out c();
ProgSharedFree ==
    Program(<< SetStatement("mk", Fn(<<>>, <<
                   SetStatement("n", IntegerLiteral(0)),
                   ReturnStatement(Fn(<<>>, <<
                       AssignStatement("n", InfixExpression(Id("n"), "+", IntegerLiteral(1))),
                       ReturnStatement(Id("n")) >>)) >>)),
               SetStatement("c", Call("mk", <<>>)),
               SpawnStatement(Id("c"), <<>>),
               OutStatement(Call("c", <<>>)) >>)

\* set a = [1]; spawn fn(b) { b.push(2); }(a); a.push(3); out a.len();
ProgSharedArray ==
    Program(<< SetStatement("a", ArrayLiteral(<<IntegerLiteral(1)>>)),
               SpawnStatement(Fn(<<"b">>, <<
                   ExpressionStatement(CallExpression(MemberExpression(Id("b"), "push"),
                                                      <<IntegerLiteral(2)>>)) >>),
                              <<Id("a")>>),
               ExpressionStatement(CallExpression(MemberExpression(Id("a"), "push"),
                                                  <<IntegerLiteral(3)>>)),
               OutStatement(CallExpression(MemberExpression(Id("a"), "len"), <<>>)) >>)

Programs ==
    << ProgCall, ProgIfReturn, ProgLoopTail, ProgBreakInFn, ProgTry, ProgTryNoThrow,
       ProgTryNoParam, ProgUncaught, ProgThrowInCallee, ProgShortCircuit, ProgForIn,
       ProgCounter, ProgShared, ProgSpawn, ProgMisc, ProgNestedTry,
       ProgSpawnOne, ProgSpawnBad, ProgWorkerFails, ProgWorkerFails2,
       ProgCallFew, ProgCallMany, ProgCallNonFn, ProgOrStatements,
       ProgDeepLocals, ProgDeepFrames, ProgImport, ProgImportShared,
       ProgImportNonString, ProgImportMissing, ProgImportParse, ProgImportCompile,
       ProgImportRuntime, ProgWorkerImport,
       ProgDivZero, ProgModZero,
       ProgIndex, ProgIndexInteger, ProgHash, ProgHashBadKey,
       ProgBreakOutside, ProgContinueOutside, ProgBreakAfterLoop, ProgContinueInFn,
       ProgConstAssign, ProgConstPostfix, ProgConstInFn, ProgConstLocal, ProgConstCaptured,
       ProgForContinue, ProgForContinueExit,
       ProgPush,
       ProgCaptureOrder,
       ProgImportSelf, ProgImportCycle,
       ProgServe, ProgServeLocal, ProgServeNoValue, ProgServeThrow,
       ProgReturnInTry,
       ProgLostUpdate,
       ProgImportFactory,
       ProgImportGlobal,
       ProgSharedFree, ProgSharedArray >>

(***************************************************************************)
(* Init and the actions.                                                   *)
(***************************************************************************)
\* no server is started
NoHost == [handler |-> GoNil, responses |-> <<>>, lines |-> <<>>, waiting |-> FALSE]

Init ==
    /\ src \in 1..Len(Programs)
    /\ compiler = NewCompiler
    /\ compiled = FALSE
    /\ vms = <<>>
    /\ heap = <<>>
    /\ globals = <<>>
    /\ mu = <<>>
    /\ output = <<>>
    /\ pools = <<>>
    /\ modules = <<>>
    /\ exited = FALSE
    /\ host = NoHost

\* comp := compiler.New(); err := comp.Compile(program)
CompileProgram ==
    /\ ~compiled
    /\ compiler' = Compile(compiler, Programs[src])
    /\ compiled' = TRUE
    /\ UNCHANGED <<src, vms, heap, globals, mu, output, pools, modules, exited, host>>

\* a Closure object; fnPool and fnIdx say which function constant Fn points
\* to (fnPool = 0: a function object that is in no pool)
NewClosure(fn, free, fnPool, fnIdx) ==
    [k |-> "closure", Fn |-> fn, Free |-> free, fnPool |-> fnPool, fnIdx |-> fnIdx]
NewArray(elements) == [k |-> "array", Elements |-> elements]

\* a Hash object: Pairs maps the hash keys to the values of the pairs
NewHash(pairs) == [k |-> "hash", Pairs |-> pairs]

\* a Bytecode value once loaded: no function constant carries a pool yet
NewPool(bytecode) ==
    [Constants |-> bytecode.Constants, SymbolTable |-> bytecode.SymbolTable,
     Attached |-> [i \in 1..Len(bytecode.Constants) |-> 0]]

\* sync.RWMutex{}
NewMutex == [readers |-> {}, writer |-> 0]

\* the VM struct New and the spawn goroutine build, around the main frame:
\* constants and gid are the pool and the globals array the VM works on,
\* hasModules is FALSE for the nil map of a spawn worker, importer is the VM
\* whose OpImport runs this VM (0 for none, -1 for a VM RunClosureCallback
\* has made, whose handler imports nothing in this model), importing the
\* sub-VM an OpImport of this VM is running (0 for none)
NewVMState(cl, stack, sp, constants, gid, hasModules, importer) ==
    [stack |-> stack, sp |-> sp, frames |-> <<NewFrame(cl, 0)>>, catchHandlers |-> <<>>,
     status |-> "running", err |-> "", lk |-> "none", tmp |-> GoNil,
     constants |-> constants, gid |-> gid, hasModules |-> hasModules,
     importer |-> importer, importing |-> 0]

\* globals := make(...); globalsMu := &sync.RWMutex{};
\* machine := vm.NewWithGlobalsState(bytecode, globals, globalsMu)
NewVM ==
    /\ compiled /\ ~Failed(compiler) /\ vms = <<>>
    /\ heap' = Append(heap, NewClosure(
                   CompiledFunction(Bytecode(compiler).Instructions, 0, 0), <<>>, 0, 0))
    /\ pools' = <<NewPool(Bytecode(compiler))>>
    /\ globals' = << <<>> >>
    /\ mu' = <<NewMutex>>
    /\ vms' = <<NewVMState(Len(heap) + 1, <<>>, 0, 1, 1, TRUE, 0)>>
    /\ UNCHANGED <<src, compiler, compiled, output, modules, exited, host>>

\* main returns once machine.Run has returned (or the main goroutine has
\* panicked): the process ends and every goroutine with it
MainExit ==
    /\ ~exited /\ Len(vms) > 0 /\ vms[1].status # "running"
    /\ exited' = TRUE
    /\ UNCHANGED <<src, compiler, compiled, vms, heap, globals, mu, output, pools, modules, host>>

VMIds == 1..Len(vms)

\* the loop condition of Run holds for VM v and VM v is between instructions
CanFetch(v) ==
    /\ ~exited
    /\ vms[v].status = "running" /\ vms[v].lk = "none" /\ vms[v].importing = 0
    /\ frameIndex(vms[v]) > 0
    /\ currentFrame(vms[v]).ip < Len(Instructions(heap, vms[v])) - 1

\* the opcode the next iteration of Run dispatches on
NextOp(v) == Instructions(heap, vms[v])[currentFrame(vms[v]).ip + 2]

\* VM v after frame.ip++
Fetched(v) == addIp(vms[v], 1)

\* the Go index of the opcode being executed, and its operands
Ip(m) == currentFrame(m).ip
HasOperands(h, m, n) == Ip(m) + 1 + n <= Len(Instructions(h, m))
Operand16(h, m) == ReadUint16(Instructions(h, m), Ip(m))
Operand8(h, m) == ReadUint8(Instructions(h, m), Ip(m))

Fetch(v, op) == CanFetch(v) /\ NextOp(v) = op

\* UpdateVM with a failure of one VM ending the Run of every other VM too
UpdateVMFailingAll(v, m) ==
    /\ vms' = [u \in VMIds |->
                  IF u = v THEN m
                  ELSE IF ~Ok(m) /\ Ok(vms[u]) /\ vms[u].lk = "none"
                       THEN RunError(vms[u], m.err) ELSE vms[u]]
    /\ UNCHANGED <<src, compiler, compiled, heap, globals, mu, output, pools, modules, exited, host>>

\* only VM v changes: each VM has a stack, frames and handlers of its own
UpdateVM(v, m) ==
    /\ vms' = [vms EXCEPT ![v] = m]
    /\ UNCHANGED <<src, compiler, compiled, heap, globals, mu, output, pools, modules, exited, host>>

\* the loop of Run ends: no frame is left, or the current frame has no byte left
RunExit ==
    \E v \in VMIds :
        /\ ~exited
        /\ vms[v].status = "running" /\ vms[v].lk = "none" /\ vms[v].importing = 0
        /\ ~CanFetch(v)
        /\ UpdateVM(v, [vms[v] EXCEPT !.status = "done"])

\* constants[constIndex], a panic when the index is out of range
PushConstantAt(m, idx) ==
    IF idx >= Len(getConstants(m)) THEN RunPanic(m)
    ELSE push(m, getConstants(m)[idx + 1])

StepConstant ==
    \E v \in VMIds :
        /\ Fetch(v, OpConstant)
        /\ LET m == Fetched(v)
           IN UpdateVM(v, IF ~HasOperands(heap, m, 2) THEN RunPanic(m)
                          ELSE PushConstantAt(addIp(m, 2), Operand16(heap, m)))

StepString ==
    \E v \in VMIds :
        /\ Fetch(v, OpString)
        /\ LET m == Fetched(v)
           IN UpdateVM(v, IF ~HasOperands(heap, m, 2) THEN RunPanic(m)
                          ELSE PushConstantAt(addIp(m, 2), Operand16(heap, m)))

StepBinary ==
    \E v \in VMIds :
        /\ CanFetch(v)
        /\ NextOp(v) \in {OpAdd, OpSub, OpMul, OpDiv, OpGreaterThan, OpEqual, OpNotEqual}
        /\ UpdateVM(v, executeBinaryOperation(heap, Fetched(v), NextOp(v)))

StepBang ==
    \E v \in VMIds :
        /\ Fetch(v, OpBang)
        /\ LET m == Fetched(v)
           IN UpdateVM(v, pushIgnoringError(pop(m), Bool(~isTruthy(Top(m)))))

StepMinus ==
    \E v \in VMIds :
        /\ Fetch(v, OpMinus)
        /\ LET m == Fetched(v)
               operand == Top(m)
           IN UpdateVM(v, IF ~Ok(pop(m)) THEN pop(m)
                          ELSE IF operand.t = "INTEGER"
                          THEN pushIgnoringError(pop(m), Integer(-operand.iv))
                          ELSE IF operand.t = "nil" THEN RunPanic(m)
                          ELSE RunError(pop(m), "unsupported type for negation"))

StepTrue ==
    \E v \in VMIds : Fetch(v, OpTrue) /\ UpdateVM(v, push(Fetched(v), Bool(TRUE)))

StepFalse ==
    \E v \in VMIds : Fetch(v, OpFalse) /\ UpdateVM(v, push(Fetched(v), Bool(FALSE)))

StepPop ==
    \E v \in VMIds : Fetch(v, OpPop) /\ UpdateVM(v, pop(Fetched(v)))

StepDup ==
    \E v \in VMIds :
        /\ Fetch(v, OpDup)
        /\ LET m == Fetched(v)
           IN UpdateVM(v, IF m.sp = 0 THEN RunError(m, "stack empty for OpDup")
                          ELSE pushIgnoringError(m, Top(m)))

\* val := vm.pop(); fmt.Println(val.Inspect())
StepOut ==
    \E v \in VMIds :
        /\ Fetch(v, OpOut)
        /\ LET m == Fetched(v)
               val == Top(m)
               bad == ~Ok(pop(m)) \/ HasNil(heap, val)
           IN /\ vms' = [vms EXCEPT ![v] = IF bad THEN RunPanic(m) ELSE pop(m)]
              /\ output' = IF bad THEN output ELSE Append(output, Inspect(heap, val))
        /\ UNCHANGED <<src, compiler, compiled, heap, globals, mu, pools, modules, exited, host>>

\* vm.globals[i]
\* GlobalAt reading the slot after the one asked for
GlobalAtNextSlot(g, i) == IF i + 2 <= Len(g) THEN g[i + 2] ELSE GoNil

\* val := vm.globals[globalIndex] (a slot never written holds nil)
GlobalAt(g, i) == IF i + 1 <= Len(g) THEN g[i + 1] ELSE GoNil

\* vm.globals[i] = obj
GlobalSet(g, i, obj) ==
    [j \in 1..(IF i + 1 > Len(g) THEN i + 1 ELSE Len(g)) |->
        IF j = i + 1 THEN obj ELSE IF j <= Len(g) THEN g[j] ELSE GoNil]

\* GlobalsLockMode with SetGlobal taking the read lock too
GlobalsLockModeAlwaysRead(op) == "r"

\* the mode in which the instruction takes globalsMu: RLock for GetGlobal,
\* Lock for SetGlobal
GlobalsLockMode(op) == IF op = OpSetGlobal THEN "w" ELSE "r"

\* CanAcquire of a mutex that excludes nobody
CanAcquireAlways(l, mode) == TRUE

\* sync.RWMutex: RLock and Lock return only when the mutex can be taken
CanAcquire(l, mode) ==
    IF mode = "w" THEN l.writer = 0 /\ l.readers = {} ELSE l.writer = 0

Acquire(l, mode, v) ==
    IF mode = "w" THEN [l EXCEPT !.writer = v] ELSE [l EXCEPT !.readers = @ \cup {v}]

Release(l, mode, v) ==
    IF mode = "w" THEN [l EXCEPT !.writer = 0] ELSE [l EXCEPT !.readers = @ \ {v}]

\* OpGetGlobal up to vm.globalsMu.RLock()
StepGetGlobalLock ==
    \E v \in VMIds :
        /\ Fetch(v, OpGetGlobal)
        /\ LET m == Fetched(v)
           IN IF ~HasOperands(heap, m, 2)
              THEN UpdateVM(v, RunPanic(m))
              ELSE /\ CanAcquire(mu[m.gid], GlobalsLockMode(OpGetGlobal))
                   /\ mu' = [mu EXCEPT ![m.gid] = Acquire(@, GlobalsLockMode(OpGetGlobal), v)]
                   /\ vms' = [vms EXCEPT ![v] =
                                 [addIp(m, 2) EXCEPT
                                     !.lk = GlobalsLockMode(OpGetGlobal),
                                     !.tmp = [op |-> OpGetGlobal,
                                              globalIndex |-> Operand16(heap, m),
                                              val |-> GoNil]]]
                   /\ UNCHANGED <<src, compiler, compiled, heap, globals, output, pools, modules, exited, host>>

\* val := vm.globals[globalIndex]; vm.globalsMu.RUnlock(); vm.push(val)
StepGetGlobalRead ==
    \E v \in VMIds :
        /\ ~exited
        /\ vms[v].status = "running" /\ vms[v].lk # "none"
        /\ vms[v].tmp.op = OpGetGlobal
        /\ mu' = [mu EXCEPT ![vms[v].gid] = Release(@, vms[v].lk, v)]
        /\ vms' = [vms EXCEPT ![v] =
                      push([vms[v] EXCEPT !.lk = "none", !.tmp = GoNil],
                           GlobalAt(globals[vms[v].gid], vms[v].tmp.globalIndex))]
        /\ UNCHANGED <<src, compiler, compiled, heap, globals, output, pools, modules, exited, host>>

\* OpSetGlobal up to vm.globalsMu.Lock()
StepSetGlobalLock ==
    \E v \in VMIds :
        /\ Fetch(v, OpSetGlobal)
        /\ LET m == Fetched(v)
           IN IF ~HasOperands(heap, m, 2) \/ ~Ok(pop(m))
              THEN UpdateVM(v, RunPanic(m))
              ELSE /\ CanAcquire(mu[m.gid], GlobalsLockMode(OpSetGlobal))
                   /\ mu' = [mu EXCEPT ![m.gid] = Acquire(@, GlobalsLockMode(OpSetGlobal), v)]
                   /\ vms' = [vms EXCEPT ![v] =
                                 [pop(addIp(m, 2)) EXCEPT
                                     !.lk = GlobalsLockMode(OpSetGlobal),
                                     !.tmp = [op |-> OpSetGlobal,
                                              globalIndex |-> Operand16(heap, m),
                                              val |-> Top(m)]]]
                   /\ UNCHANGED <<src, compiler, compiled, heap, globals, output, pools, modules, exited, host>>

\* vm.globals[globalIndex] = val; vm.globalsMu.Unlock()
StepSetGlobalWrite ==
    \E v \in VMIds :
        /\ ~exited
        /\ vms[v].status = "running" /\ vms[v].lk # "none"
        /\ vms[v].tmp.op = OpSetGlobal
        /\ globals' = [globals EXCEPT ![vms[v].gid] =
                           GlobalSet(@, vms[v].tmp.globalIndex, vms[v].tmp.val)]
        /\ mu' = [mu EXCEPT ![vms[v].gid] = Release(@, vms[v].lk, v)]
        /\ vms' = [vms EXCEPT ![v] = [vms[v] EXCEPT !.lk = "none", !.tmp = GoNil]]
        /\ UNCHANGED <<src, compiler, compiled, heap, output, pools, modules, exited, host>>

StepGetLocal ==
    \E v \in VMIds :
        /\ Fetch(v, OpGetLocal)
        /\ LET m == Fetched(v)
               slot == currentFrame(m).basePointer + Operand8(heap, m)
           IN UpdateVM(v, IF ~HasOperands(heap, m, 1) \/ ~ValidSlot(slot) THEN RunPanic(m)
                          ELSE push(addIp(m, 1), StackAt(m, slot)))

StepSetLocal ==
    \E v \in VMIds :
        /\ Fetch(v, OpSetLocal)
        /\ LET m == Fetched(v)
               slot == currentFrame(m).basePointer + Operand8(heap, m)
               m1 == pop(addIp(m, 1))
           IN UpdateVM(v, IF ~HasOperands(heap, m, 1) THEN RunPanic(m)
                          ELSE IF ~Ok(m1) THEN m1
                          ELSE IF ~ValidSlot(slot) THEN RunPanic(m1)
                          ELSE [m1 EXCEPT !.stack = StackSet(m1.stack, slot, Top(m))])

\* builtins.GetBuiltinByIndex: nil when the index is out of range
StepGetBuiltin ==
    \E v \in VMIds :
        /\ Fetch(v, OpGetBuiltin)
        /\ LET m == Fetched(v)
               builtinIndex == Operand8(heap, m)
           IN UpdateVM(v, IF ~HasOperands(heap, m, 1) THEN RunPanic(m)
                          ELSE IF builtinIndex >= Len(BuiltinNames)
                          THEN RunError(addIp(m, 1), "builtin function not found")
                          ELSE push(addIp(m, 1),
                                    [t |-> "BUILTIN", name |-> BuiltinNames[builtinIndex + 1]]))

\* the stack window vm.stack[from:to]
Window(m, from, to) == [i \in 1..(to - from) |-> StackAt(m, from + i - 1)]

\* OpArray with VM.buildArray
StepArray ==
    \E v \in VMIds :
        /\ Fetch(v, OpArray)
        /\ LET m == Fetched(v)
               numElements == Operand16(heap, m)
               bad == ~HasOperands(heap, m, 2) \/ m.sp - numElements < 0
               m1 == [addIp(m, 2) EXCEPT !.sp = m.sp - numElements]
           IN /\ vms' = [vms EXCEPT ![v] =
                            IF bad THEN RunPanic(m)
                            ELSE push(m1, ArrayRef(Len(heap) + 1))]
              /\ heap' = IF bad THEN heap
                         ELSE Append(heap, NewArray(Window(m, m.sp - numElements, m.sp)))
        /\ UNCHANGED <<src, compiler, compiled, globals, mu, output, pools, modules, exited, host>>

\* VM.buildHash over vm.stack[i:endIndex], pairs being those set so far: the
\* error, or the pairs of the Hash
RECURSIVE buildHash(_, _, _, _)
buildHash(m, pairs, i, endIndex) ==
    IF i >= endIndex THEN [status |-> "running", Pairs |-> pairs]
    ELSE LET key == StackAt(m, i)
             value == StackAt(m, i + 1)
         IN IF key.t = "nil" THEN [status |-> "panic", Pairs |-> pairs]
            ELSE IF ~Hashable(key) THEN [status |-> "error", Pairs |-> pairs]
            ELSE buildHash(m, (HashKey(key) :> value) @@ pairs, i + 2, endIndex)

\* OpHash with VM.buildHash
StepHash ==
    \E v \in VMIds :
        /\ Fetch(v, OpHash)
        /\ LET m == Fetched(v)
               numElements == Operand16(heap, m)
               bad == ~HasOperands(heap, m, 2) \/ m.sp - numElements < 0
               hash == buildHash(m, <<>>, m.sp - numElements, m.sp)
               m1 == [addIp(m, 2) EXCEPT !.sp = m.sp - numElements]
               built == ~bad /\ hash.status = "running"
           IN /\ vms' = [vms EXCEPT ![v] =
                            IF bad \/ hash.status = "panic" THEN RunPanic(m)
                            ELSE IF hash.status = "error"
                            THEN RunError(addIp(m, 2), "unusable as hash key")
                            ELSE push(m1, HashRef(Len(heap) + 1))]
              /\ heap' = IF built THEN Append(heap, NewHash(hash.Pairs)) ELSE heap
        /\ UNCHANGED <<src, compiler, compiled, globals, mu, output, pools, modules, exited, host>>

\* executeArrayIndex reporting an index out of range as an error
executeArrayIndexFailing(h, m, array, index) ==
    LET elements == h[array.ref].Elements
    IN IF index.iv < 0 \/ index.iv > Len(elements) - 1
       THEN RunError(m, "index out of range")
       ELSE push(m, elements[index.iv + 1])

\* VM.executeArrayIndex
executeArrayIndex(h, m, array, index) ==
    LET elements == h[array.ref].Elements
        max == Len(elements) - 1
    IN IF index.iv < 0 \/ index.iv > max THEN push(m, Null)
       ELSE push(m, elements[index.iv + 1])

\* executeHashIndex finding nothing under a key that cannot be hashed
executeHashIndexLenient(h, m, hash, index) ==
    IF index.t = "nil" THEN RunPanic(m)
    ELSE IF ~Hashable(index) THEN push(m, Null)
    ELSE IF HashKey(index) \notin DOMAIN h[hash.ref].Pairs THEN push(m, Null)
    ELSE push(m, h[hash.ref].Pairs[HashKey(index)])

\* VM.executeHashIndex
executeHashIndex(h, m, hash, index) ==
    IF index.t = "nil" THEN RunPanic(m)
    ELSE IF ~Hashable(index) THEN RunError(m, "unusable as hash key")
    ELSE IF HashKey(index) \notin DOMAIN h[hash.ref].Pairs THEN push(m, Null)
    ELSE push(m, h[hash.ref].Pairs[HashKey(index)])

\* VM.executeIndexExpression
executeIndexExpression(h, m, left, index) ==
    IF left.t = "nil" THEN RunPanic(m)
    ELSE IF left.t = "ARRAY" /\ index.t = "nil" THEN RunPanic(m)
    ELSE IF left.t = "ARRAY" /\ index.t = "INTEGER"
    THEN executeArrayIndex(h, m, left, index)
    ELSE IF left.t = "HASH" THEN executeHashIndex(h, m, left, index)
    ELSE RunError(m, "index operator not supported")

StepIndex ==
    \E v \in VMIds :
        /\ Fetch(v, OpIndex)
        /\ LET m == Fetched(v)
               index == Top(m)
               m1 == pop(m)
               left == Top(m1)
               m2 == pop(m1)
           IN UpdateVM(v, IF ~Ok(m2) THEN m2
                          ELSE executeIndexExpression(heap, m2, left, index))

\* OpMember with VM.executeMemberExpression: the len and push methods of an
\* array are Builtin values bound to the array
StepMember ==
    \E v \in VMIds :
        /\ Fetch(v, OpMember)
        /\ LET m == Fetched(v)
               constIndex == Operand16(heap, m)
               member == getConstants(m)[constIndex + 1]
               obj == Top(m)
               m1 == pop(addIp(m, 2))
           IN UpdateVM(v,
                 IF ~HasOperands(heap, m, 2) \/ constIndex >= Len(getConstants(m))
                 THEN RunPanic(m)
                 ELSE IF member.t # "STRING" THEN RunPanic(m)
                 ELSE IF ~Ok(m1) THEN m1
                 ELSE IF obj.t = "ARRAY"
                 THEN IF member.sv \in {"len", "push"}
                      THEN push(m1, [t |-> "BUILTIN", name |-> "Array." \o member.sv,
                                     self |-> obj.ref])
                      ELSE push(m1, Null)
                 ELSE IF obj.t = "HASH"
                 THEN IF HashKey(member) \in DOMAIN heap[obj.ref].Pairs
                      THEN push(m1, heap[obj.ref].Pairs[HashKey(member)])
                      ELSE push(m1, Null)
                 ELSE IF obj.t = "nil" THEN RunPanic(m1)
                 ELSE RunError(m1, "member access not supported"))

StepJump ==
    \E v \in VMIds :
        /\ Fetch(v, OpJump)
        /\ LET m == Fetched(v)
           IN UpdateVM(v, IF ~HasOperands(heap, m, 2) THEN RunPanic(m)
                          ELSE setIp(m, Operand16(heap, m) - 1))

\* the jump is taken when the popped condition is not truthy
StepJumpNotTruthy ==
    \E v \in VMIds :
        /\ Fetch(v, OpJumpNotTruthy)
        /\ LET m == Fetched(v)
               m1 == pop(addIp(m, 2))
           IN UpdateVM(v, IF ~HasOperands(heap, m, 2) THEN RunPanic(m)
                          ELSE IF ~Ok(m1) THEN m1
                          ELSE IF ~isTruthy(Top(m)) THEN setIp(m1, Operand16(heap, m) - 1)
                          ELSE m1)

\* vm.StackTop(): nil when sp = 0, and isTruthy(nil) is true
StackTop(m) == IF m.sp = 0 THEN GoNil ELSE Top(m)

\* the jump is taken when the top of the stack is truthy; the top stays
StepJumpTruthy ==
    \E v \in VMIds :
        /\ Fetch(v, OpJumpTruthy)
        /\ LET m == Fetched(v)
           IN UpdateVM(v, IF ~HasOperands(heap, m, 2) THEN RunPanic(m)
                          ELSE IF isTruthy(StackTop(m)) THEN setIp(m, Operand16(heap, m) - 1)
                          ELSE addIp(m, 2))

StepCatch ==
    \E v \in VMIds :
        /\ Fetch(v, OpCatch)
        /\ LET m == Fetched(v)
           IN UpdateVM(v, IF ~HasOperands(heap, m, 2) THEN RunPanic(m)
                          ELSE [addIp(m, 2) EXCEPT
                                   !.catchHandlers = Append(@, Operand16(heap, m))])

\* ExecThrow taking the oldest handler instead of the most recent one
ExecThrowOldestHandler(h, m) ==
    IF m.sp = 0 THEN RunError(m, "throw with empty stack")
    ELSE IF Len(m.catchHandlers) = 0
    THEN IF HasNil(h, Top(m)) THEN RunPanic(m)
         ELSE RunError(pop(m), "uncaught throw: " \o Inspect(h, Top(m)))
    ELSE LET thrown == Top(m)
             handlerPos == m.catchHandlers[1]
             m1 == [pop(m) EXCEPT !.catchHandlers = Tail(@)]
         IN setIp(pushIgnoringError(m1, thrown), handlerPos - 1)

\* OpThrow: the handler position is applied to the current frame
ExecThrow(h, m) ==
    IF m.sp = 0 THEN RunError(m, "throw with empty stack")
    ELSE IF Len(m.catchHandlers) = 0
    THEN IF HasNil(h, Top(m)) THEN RunPanic(m)
         ELSE RunError(pop(m), "uncaught throw: " \o Inspect(h, Top(m)))
    ELSE LET thrown == Top(m)
             handlerPos == m.catchHandlers[Len(m.catchHandlers)]
             m1 == [pop(m) EXCEPT
                       !.catchHandlers = SubSeq(@, 1, Len(m.catchHandlers) - 1)]
         IN setIp(pushIgnoringError(m1, thrown), handlerPos - 1)

\* StepThrow unwinding to the caller: the frame of a callee is popped before
\* the handler target is applied
StepThrowUnwinding ==
    \E v \in VMIds :
        /\ Fetch(v, OpThrow)
        /\ LET m == Fetched(v)
           IN UpdateVM(v, IF frameIndex(m) > 1
                          THEN ExecThrow(heap, [m EXCEPT !.frames =
                                                   SubSeq(@, 1, Len(m.frames) - 1)])
                          ELSE ExecThrow(heap, m))

StepThrow ==
    \E v \in VMIds : Fetch(v, OpThrow) /\ UpdateVM(v, ExecThrow(heap, Fetched(v)))

StepEndCatch ==
    \E v \in VMIds :
        /\ Fetch(v, OpEndCatch)
        /\ LET m == Fetched(v)
           IN UpdateVM(v, IF Len(m.catchHandlers) = 0
                          THEN RunError(m, "OpEndCatch without OpCatch")
                          ELSE [m EXCEPT !.catchHandlers =
                                   SubSeq(@, 1, Len(m.catchHandlers) - 1)])

Error(msg) == [t |-> "ERROR", Message |-> msg]

\* the builtins of the registry and the array methods this model runs
ModelledBuiltins == {"len", "push", "http_serve", "Array.len", "Array.push"}

\* the value a Builtin returns for the arguments args
BuiltinResult(h, b, args) ==
    CASE b.name = "len" ->
            IF Len(args) # 1 THEN Error("wrong number of arguments")
            ELSE IF args[1].t = "ARRAY" THEN Integer(Len(h[args[1].ref].Elements))
            ELSE IF args[1].t = "STRING" THEN Integer(Len(args[1].sv))
            ELSE Error("argument to len not supported")
      [] b.name = "push" ->
            IF Len(args) # 2 THEN Error("wrong number of arguments")
            ELSE IF args[1].t # "ARRAY" THEN Error("argument to push must be ARRAY")
            ELSE ArrayRef(Len(h) + 1)
      [] b.name = "http_serve" ->
            IF Len(args) # 2 THEN Error("wrong number of arguments")
            ELSE IF args[1].t # "INTEGER" \/ args[2].t # "CLOSURE"
            THEN Error("arguments to http_serve must be (INTEGER, FUNCTION)")
            ELSE String("Server running on :" \o ToString(args[1].iv))
      [] b.name = "Array.len" -> Integer(Len(h[b.self].Elements))
      [] b.name = "Array.push" ->
            IF Len(args) # 1 THEN Error("wrong number of arguments") ELSE Null

\* BuiltinHeap with a push method that copies: the longer array is a new
\* object and the array of the method stays as it was
BuiltinHeapCopying(h, b, args) ==
    CASE b.name = "push" /\ Len(args) = 2 /\ args[1].t = "ARRAY" ->
            Append(h, NewArray(Append(h[args[1].ref].Elements, args[2])))
      [] b.name = "Array.push" /\ Len(args) = 1 ->
            Append(h, NewArray(Append(h[b.self].Elements, args[1])))
      [] OTHER -> h

\* the heap after the call: the push builtin makes a new array, the push method
\* replaces the elements of its array
BuiltinHeap(h, b, args) ==
    CASE b.name = "push" /\ Len(args) = 2 /\ args[1].t = "ARRAY" ->
            Append(h, NewArray(Append(h[args[1].ref].Elements, args[2])))
      [] b.name = "Array.push" /\ Len(args) = 1 ->
            [h EXCEPT ![b.self].Elements = Append(@, args[1])]
      [] OTHER -> h

\* the host after the call: http_serve registers its handler with the server
\* it starts
BuiltinHost(hst, b, args) ==
    IF b.name = "http_serve" /\ Len(args) = 2 /\ args[1].t = "INTEGER"
       /\ args[2].t = "CLOSURE"
    THEN [hst EXCEPT !.handler = args[2]]
    ELSE hst

\* a nil argument makes these builtins panic in args[0].Type()
BuiltinPanics(b, args) ==
    /\ b.name \in {"len", "push"}
    /\ Len(args) >= 1 /\ args[1].t = "nil"
    /\ (b.name = "len" => Len(args) = 1) /\ (b.name = "push" => Len(args) = 2)

\* CallClosure refusing only a call with too few arguments
CallClosureAcceptingMore(h, m, callee, numArgs) ==
    LET fn == h[callee.ref].Fn
        frame == NewFrame(callee.ref, m.sp - numArgs)
    IN IF numArgs < fn.NumParameters THEN RunError(m, "wrong number of arguments")
       ELSE IF frameIndex(m) >= MaxFrames THEN RunPanic(m)
       ELSE [m EXCEPT !.frames = Append(@, frame),
                      !.sp = frame.basePointer + fn.NumLocals]

\* OpCall on a Closure: the new frame, and sp above the reserved locals
CallClosure(h, m, callee, numArgs) ==
    LET fn == h[callee.ref].Fn
        frame == NewFrame(callee.ref, m.sp - numArgs)
    IN IF numArgs # fn.NumParameters THEN RunError(m, "wrong number of arguments")
       ELSE IF frameIndex(m) >= MaxFrames THEN RunPanic(m)
       ELSE [m EXCEPT !.frames = Append(@, frame),
                      !.sp = frame.basePointer + fn.NumLocals]

StepCall ==
    \E v \in VMIds :
        /\ Fetch(v, OpCall)
        /\ LET m == Fetched(v)
               numArgs == Operand8(heap, m)
               m1 == addIp(m, 1)
               callee == StackAt(m, m.sp - 1 - numArgs)
               args == Window(m, m.sp - numArgs, m.sp)
           IN IF ~HasOperands(heap, m, 1) \/ ~ValidSlot(m.sp - 1 - numArgs)
                 \/ callee.t = "nil"
              THEN UpdateVM(v, RunPanic(m))
              ELSE IF callee.t = "CLOSURE"
              THEN UpdateVM(v, CallClosure(heap, m1, callee, numArgs))
              ELSE IF callee.t = "BUILTIN"
              THEN /\ callee.name \in ModelledBuiltins
                   /\ IF BuiltinPanics(callee, args)
                      THEN UpdateVM(v, RunPanic(m))
                      ELSE /\ heap' = BuiltinHeap(heap, callee, args)
                           /\ host' = BuiltinHost(host, callee, args)
                           /\ vms' = [vms EXCEPT ![v] =
                                 pushIgnoringError([m1 EXCEPT !.sp = m.sp - numArgs - 1],
                                                   BuiltinResult(heap, callee, args))]
                           /\ UNCHANGED <<src, compiler, compiled, globals, mu, output, pools, modules, exited>>
              ELSE UpdateVM(v, RunError(m1, "calling non-function"))

\* StepSpawn leaving the target on the parent's stack
StepSpawnKeepingTarget ==
    \E v \in VMIds :
        /\ Fetch(v, OpSpawn)
        /\ LET m == Fetched(v)
               numArgs == Operand8(heap, m)
               target == StackAt(m, m.sp - 1 - numArgs)
               args == Window(m, m.sp - numArgs, m.sp)
               m1 == [addIp(m, 1) EXCEPT !.sp = m.sp - numArgs]
               isFn == target.t = "COMPILED_FUNCTION"
               cl == IF isFn THEN Len(heap) + 1 ELSE target.ref
               h1 == IF isFn THEN Append(heap, NewClosure(target, <<>>, 0, 0)) ELSE heap
           IN IF ~HasOperands(heap, m, 1) \/ ~ValidSlot(m.sp - 1 - numArgs)
                 \/ target.t = "nil"
              THEN UpdateVM(v, RunPanic(m))
              ELSE IF target.t \notin {"CLOSURE", "COMPILED_FUNCTION"}
              THEN UpdateVM(v, RunError(m1, "spawn target must be a function"))
              ELSE /\ Len(vms) < MaxVMs
                   /\ heap' = h1
                   /\ vms' = Append([vms EXCEPT ![v] = m1],
                                    NewVMState(cl, args, h1[cl].Fn.NumLocals,
                                               m.constants, m.gid, FALSE, 0))
                   /\ UNCHANGED <<src, compiler, compiled, globals, mu, output, pools, modules, exited, host>>

\* OpSpawn: the arguments and the target leave the parent's stack; the worker
\* is a new VM whose main frame is the target
StepSpawn ==
    \E v \in VMIds :
        /\ Fetch(v, OpSpawn)
        /\ LET m == Fetched(v)
               numArgs == Operand8(heap, m)
               target == StackAt(m, m.sp - 1 - numArgs)
               args == Window(m, m.sp - numArgs, m.sp)
               m1 == [addIp(m, 1) EXCEPT !.sp = m.sp - numArgs - 1]
               isFn == target.t = "COMPILED_FUNCTION"
               cl == IF isFn THEN Len(heap) + 1 ELSE target.ref
               h1 == IF isFn THEN Append(heap, NewClosure(target, <<>>, 0, 0)) ELSE heap
           IN IF ~HasOperands(heap, m, 1) \/ ~ValidSlot(m.sp - 1 - numArgs)
                 \/ target.t = "nil"
              THEN UpdateVM(v, RunPanic(m))
              ELSE IF target.t \notin {"CLOSURE", "COMPILED_FUNCTION"}
              THEN UpdateVM(v, RunError(m1, "spawn target must be a function"))
              ELSE /\ Len(vms) < MaxVMs
                   /\ heap' = h1
                   /\ vms' = Append([vms EXCEPT ![v] = m1],
                                    NewVMState(cl, args, h1[cl].Fn.NumLocals,
                                               m.constants, m.gid, FALSE, 0))
                   /\ UNCHANGED <<src, compiler, compiled, globals, mu, output, pools, modules, exited, host>>

\* ModulePath without the suffix rule
ModulePathAsGiven(path) == path

\* modulePath: the path with .xn appended when absent
ModulePath(path) == IF HasSuffix(path, ".xn") THEN path ELSE path \o ".xn"

\* mod, ok := vm.modules[modulePath] (a spawn worker has a nil map, in which
\* nothing is found)
Cached(m, modulePath) == m.hasModules /\ modulePath \in DOMAIN modules

\* the symbols of the module's symbol table that are exported: those of
\* GlobalScope whose slot of the sub-VM's globals is not nil
ExportedNames(bytecode, g) ==
    {name \in DOMAIN bytecode.SymbolTable.store :
        /\ bytecode.SymbolTable.store[name].Scope = GlobalScope
        /\ GlobalAt(g, bytecode.SymbolTable.store[name].Index) # GoNil}

\* exportHash.Pairs
ExportPairs(bytecode, g) ==
    [key \in {HashKey(String(name)) : name \in ExportedNames(bytecode, g)} |->
        GlobalAt(g, bytecode.SymbolTable.store[key.Value].Index)]

\* the closures attachConstants comes by from val: val itself, and what it
\* finds in free lists, hash values and array elements
RECURSIVE Closures(_, _)
Closures(h, val) ==
    CASE val.t = "CLOSURE" ->
            {val.ref} \cup UNION {Closures(h, h[val.ref].Free[i]) :
                                     i \in 1..Len(h[val.ref].Free)}
      [] val.t = "HASH" ->
            UNION {Closures(h, h[val.ref].Pairs[key]) : key \in DOMAIN h[val.ref].Pairs}
      [] val.t = "ARRAY" ->
            UNION {Closures(h, h[val.ref].Elements[i]) :
                     i \in 1..Len(h[val.ref].Elements)}
      [] OTHER -> {}

\* attachConstants replacing the pool a function already carries
attachConstantsOverwriting(ps, h, val, constants) ==
    [q \in 1..Len(ps) |->
        [ps[q] EXCEPT !.Attached =
            [i \in 1..Len(ps[q].Attached) |->
                IF \E r \in Closures(h, val) : h[r].fnPool = q /\ h[r].fnIdx + 1 = i
                THEN constants ELSE ps[q].Attached[i]]]]

\* VM.attachConstants: v.Fn.Constants = constants for every closure found
\* whose function carries no pool yet
attachConstants(ps, h, val, constants) ==
    [q \in 1..Len(ps) |->
        [ps[q] EXCEPT !.Attached =
            [i \in 1..Len(ps[q].Attached) |->
                IF /\ ps[q].Attached[i] = 0
                   /\ \E r \in Closures(h, val) : h[r].fnPool = q /\ h[r].fnIdx + 1 = i
                THEN constants ELSE ps[q].Attached[i]]]]

\* ModulesAfterImport storing the module whatever became of its run
ModulesAfterFailedImport(sub, modulePath, exportHash) ==
    [q \in DOMAIN modules \cup {modulePath} |->
        IF q = modulePath THEN exportHash ELSE modules[q]]

\* vm.modules[modulePath] = exportHash, reached only when the sub-VM's Run
\* returned no error
ModulesAfterImport(sub, modulePath, exportHash) ==
    IF sub.status # "done" THEN modules
    ELSE [q \in DOMAIN modules \cup {modulePath} |->
             IF q = modulePath THEN exportHash ELSE modules[q]]

\* StartModule entering the module in the cache before its sub-VM runs
StartModuleRegistering(v, m1, modulePath, c) ==
    IF Failed(c) THEN UpdateVM(v, RunError(m1, "import compile error"))
    ELSE /\ Len(vms) < MaxVMs
         /\ heap' = Append(heap, NewClosure(
                        CompiledFunction(Bytecode(c).Instructions, 0, 0),
                        <<>>, 0, 0))
         /\ pools' = Append(pools, NewPool(Bytecode(c)))
         /\ globals' = Append(globals, <<>>)
         /\ mu' = Append(mu, NewMutex)
         /\ modules' = [q \in DOMAIN modules \cup {modulePath} |->
                           IF q = modulePath THEN Null ELSE modules[q]]
         /\ vms' = Append(
               [vms EXCEPT ![v] =
                   [m1 EXCEPT !.importing = Len(vms) + 1,
                              !.tmp = [op |-> OpImport,
                                       modulePath |-> modulePath]]],
               NewVMState(Len(heap) + 1, <<>>, 0, Len(pools) + 1,
                          Len(globals) + 1, m1.hasModules, v))
         /\ UNCHANGED <<src, compiler, compiled, output, exited, host>>

\* OpImport from the compilation of the file to subVm.Run(): a compile
\* error ends the Run; otherwise New makes the sub-VM over the module's
\* bytecode, with the importing VM's module cache
StartModule(v, m1, modulePath, c) ==
    IF Failed(c) THEN UpdateVM(v, RunError(m1, "import compile error"))
    ELSE /\ Len(vms) < MaxVMs
         /\ heap' = Append(heap, NewClosure(
                        CompiledFunction(Bytecode(c).Instructions, 0, 0),
                        <<>>, 0, 0))
         /\ pools' = Append(pools, NewPool(Bytecode(c)))
         /\ globals' = Append(globals, <<>>)
         /\ mu' = Append(mu, NewMutex)
         /\ vms' = Append(
               [vms EXCEPT ![v] =
                   [m1 EXCEPT !.importing = Len(vms) + 1,
                              !.tmp = [op |-> OpImport,
                                       modulePath |-> modulePath]]],
               NewVMState(Len(heap) + 1, <<>>, 0, Len(pools) + 1,
                          Len(globals) + 1, m1.hasModules, v))
         /\ UNCHANGED <<src, compiler, compiled, output, modules, exited, host>>

\* OpImport up to subVm.Run(): the path is popped; a cached module is pushed;
\* otherwise the file is read, parsed and compiled (the standard library
\* prepended to it is empty here) and a sub-VM made by New is started
StepImport ==
    \E v \in VMIds :
        /\ Fetch(v, OpImport)
        /\ LET m == Fetched(v)
               pathObj == Top(m)
               m1 == pop(m)
               modulePath == ModulePath(pathObj.sv)
               file == FileSystem[modulePath]
           IN IF ~Ok(m1) \/ pathObj.t = "nil" THEN UpdateVM(v, RunPanic(m))
              ELSE IF pathObj.t # "STRING"
              THEN UpdateVM(v, RunError(m1, "import path must be string"))
              ELSE IF Cached(m1, modulePath)
              THEN UpdateVM(v, push(m1, modules[modulePath]))
              ELSE IF modulePath \notin DOMAIN FileSystem
              THEN UpdateVM(v, RunError(m1, "could not read import file"))
              ELSE IF file.errors
              THEN UpdateVM(v, RunError(m1, "import parse error"))
              ELSE StartModule(v, m1, modulePath,
                               Compile(NewCompiler, file.program))

\* OpImport from the return of subVm.Run(): a failed run ends the importing
\* Run too; otherwise the export hash is built, the module's pool is attached
\* to the closures in it, the hash is stored in the cache and pushed
StepImportDone ==
    \E v \in VMIds :
        /\ ~exited
        /\ vms[v].status = "running" /\ vms[v].importing # 0
        /\ vms[vms[v].importing].status # "running"
        /\ LET sub == vms[vms[v].importing]
               m == [vms[v] EXCEPT !.importing = 0, !.tmp = GoNil]
               modulePath == vms[v].tmp.modulePath
               exportHash == HashRef(Len(heap) + 1)
               h1 == Append(heap, NewHash(ExportPairs(pools[sub.constants],
                                                      globals[sub.gid])))
           IN /\ modules' = IF m.hasModules
                             THEN ModulesAfterImport(sub, modulePath, exportHash)
                             ELSE modules
              /\ IF sub.status = "panic"
                 THEN /\ vms' = [vms EXCEPT ![v] = RunPanic(m)]
                      /\ UNCHANGED <<heap, pools>>
                 ELSE IF sub.status = "error"
                 THEN /\ vms' = [vms EXCEPT ![v] = RunError(m, "import runtime error")]
                      /\ UNCHANGED <<heap, pools>>
                 ELSE /\ heap' = h1
                      /\ pools' = attachConstants(pools, h1, exportHash, sub.constants)
                      /\ vms' = [vms EXCEPT ![v] =
                                    IF m.hasModules THEN push(m, exportHash)
                                    ELSE RunPanic(m)]
              /\ UNCHANGED <<src, compiler, compiled, globals, mu, output, exited, host>>

\* VM.pushClosure: the closure gets a Free slice of its own, filled with the
\* values on top of the stack
pushClosure(h, m, constIndex, numFree) ==
    IF constIndex >= Len(getConstants(m)) THEN RunPanic(m)
    ELSE IF getConstants(m)[constIndex + 1].t # "COMPILED_FUNCTION"
    THEN RunError(m, "not a compiled function")
    ELSE IF numFree > 0 /\ ~ValidSlot(m.sp - numFree) THEN RunPanic(m)
    ELSE push([m EXCEPT !.sp = m.sp - numFree], ClosureRef(Len(h) + 1))

\* pushClosureHeap filling the Free slice from the top of the stack down
pushClosureHeapTopDown(h, m, constIndex, numFree) ==
    IF Ok(pushClosure(h, m, constIndex, numFree))
    THEN Append(h, NewClosure(getConstants(m)[constIndex + 1],
                              [i \in 1..numFree |-> StackAt(m, m.sp - i)],
                              CurrentPool(m), constIndex))
    ELSE h

pushClosureHeap(h, m, constIndex, numFree) ==
    IF Ok(pushClosure(h, m, constIndex, numFree))
    THEN Append(h, NewClosure(getConstants(m)[constIndex + 1],
                              Window(m, m.sp - numFree, m.sp),
                              CurrentPool(m), constIndex))
    ELSE h

StepClosure ==
    \E v \in VMIds :
        /\ Fetch(v, OpClosure)
        /\ LET m == Fetched(v)
               ins == Instructions(heap, m)
               constIndex == Operand16(heap, m)
               numFree == ins[Ip(m) + 4]
           IN IF ~HasOperands(heap, m, 3)
              THEN UpdateVM(v, RunPanic(m))
              ELSE /\ vms' = [vms EXCEPT ![v] =
                                 pushClosure(heap, addIp(m, 3), constIndex, numFree)]
                   /\ heap' = pushClosureHeap(heap, addIp(m, 3), constIndex, numFree)
                   /\ UNCHANGED <<src, compiler, compiled, globals, mu, output, pools, modules, exited, host>>

\* frame.cl.Free[freeIndex]
StepGetFree ==
    \E v \in VMIds :
        /\ Fetch(v, OpGetFree)
        /\ LET m == Fetched(v)
               free == heap[currentFrame(m).cl].Free
           IN UpdateVM(v, IF ~HasOperands(heap, m, 1) \/ Operand8(heap, m) >= Len(free)
                          THEN RunPanic(m)
                          ELSE push(addIp(m, 1), free[Operand8(heap, m) + 1]))

\* StepSetFree writing into a copy of the Free slice: the closure is unchanged
StepSetFreeIntoCopy ==
    \E v \in VMIds :
        /\ Fetch(v, OpSetFree)
        /\ LET m == Fetched(v)
               cl == currentFrame(m).cl
               m1 == pop(addIp(m, 1))
               bad == ~HasOperands(heap, m, 1) \/ ~Ok(m1)
                      \/ Operand8(heap, m) >= Len(heap[cl].Free)
           IN vms' = [vms EXCEPT ![v] = IF bad THEN RunPanic(m) ELSE m1]
        /\ UNCHANGED <<src, compiler, compiled, heap, globals, mu, output, pools, modules, exited, host>>

\* frame.cl.Free[freeIndex] = val: a write into the closure object itself
StepSetFree ==
    \E v \in VMIds :
        /\ Fetch(v, OpSetFree)
        /\ LET m == Fetched(v)
               cl == currentFrame(m).cl
               m1 == pop(addIp(m, 1))
               bad == ~HasOperands(heap, m, 1) \/ ~Ok(m1)
                      \/ Operand8(heap, m) >= Len(heap[cl].Free)
           IN /\ vms' = [vms EXCEPT ![v] = IF bad THEN RunPanic(m) ELSE m1]
              /\ heap' = IF bad THEN heap
                         ELSE [heap EXCEPT ![cl].Free[Operand8(heap, m) + 1] = Top(m)]
        /\ UNCHANGED <<src, compiler, compiled, globals, mu, output, pools, modules, exited, host>>

\* ExecReturn with vm.sp = frame.basePointer: the callee's slot is kept
ExecReturnKeepingCallee(m, returnValue) ==
    LET frame == currentFrame(m)
        m1 == [m EXCEPT !.frames = SubSeq(@, 1, Len(m.frames) - 1)]
    IN IF frameIndex(m1) = 0
       THEN [pushIgnoringError([m1 EXCEPT !.sp = 0], returnValue) EXCEPT !.status = "done"]
       ELSE push([m1 EXCEPT !.sp = frame.basePointer], returnValue)

\* OpReturnValue and OpReturn after the value is known: pop the frame; the
\* outermost frame ends Run, any other leaves the value in the callee's slot
ExecReturn(m, returnValue) ==
    LET frame == currentFrame(m)
        m1 == [m EXCEPT !.frames = SubSeq(@, 1, Len(m.frames) - 1)]
    IN IF frameIndex(m1) = 0
       THEN [pushIgnoringError([m1 EXCEPT !.sp = 0], returnValue) EXCEPT !.status = "done"]
       ELSE IF ~ValidSlot(frame.basePointer - 1) THEN RunPanic(m1)
       ELSE push([m1 EXCEPT !.sp = frame.basePointer - 1], returnValue)

StepReturnValue ==
    \E v \in VMIds :
        /\ Fetch(v, OpReturnValue)
        /\ LET m == Fetched(v)
           IN UpdateVM(v, IF ~Ok(pop(m)) THEN pop(m) ELSE ExecReturn(pop(m), Top(m)))

StepReturn ==
    \E v \in VMIds : Fetch(v, OpReturn) /\ UpdateVM(v, ExecReturn(Fetched(v), Null))

\* the requests the server of the model handles
MaxRequests == 1

\* the VMs RunClosureCallback has made
CallbackVMs == {v \in VMIds : vms[v].importer = -1}

\* the request Hash the handler of http_serve is called with
RequestHash ==
    NewHash((HashKey(String("method")) :> String("GET"))
            @@ (HashKey(String("path")) :> String("/")))

\* the stack after SetStack(i, arg) for every argument
RECURSIVE SetStackArgs(_, _, _)
SetStackArgs(stack, args, i) ==
    IF i > Len(args) THEN stack
    ELSE SetStackArgs(StackSet(stack, i - 1, args[i]), args, i + 1)

\* RunClosureCallback up to subVm.Run(), called by the server for a request:
\* a VM over the program's constants, globals and globalsMu, whose frame 0 is
\* the handler with base pointer 0; the arguments fill the stack from slot 0
\* and sp is NumLocals
HostRequest ==
    /\ ~exited /\ host.handler # GoNil
    /\ Len(vms) < MaxVMs /\ Cardinality(CallbackVMs) < MaxRequests
    /\ LET cl == host.handler
           args == << HashRef(Len(heap) + 1) >>
       IN /\ heap' = Append(heap, RequestHash)
          /\ vms' = Append(vms,
                 NewVMState(cl.ref, SetStackArgs(<<>>, args, 1),
                            heap[cl.ref].Fn.NumLocals, 1, 1, FALSE, -1))
    /\ UNCHANGED <<src, compiler, compiled, globals, mu, output, pools, modules, exited, host>>

\* VM.LastPoppedStackElem
LastPoppedStackElem(m) == StackAt(m, m.sp)

\* RunClosureCallback from the return of subVm.Run(): an Error for an error
\* of Run, otherwise LastPoppedStackElem (a panic of Run is left to the server)
HostResponse ==
    \E v \in CallbackVMs :
        /\ ~exited
        /\ vms[v].status \in {"done", "error"}
        /\ \A i \in 1..Len(host.responses) : host.responses[i].vm # v
        /\ host' = [host EXCEPT !.responses =
                        Append(@, [vm |-> v,
                                   res |-> IF vms[v].status = "error"
                                           THEN Error(vms[v].err)
                                           ELSE LastPoppedStackElem(vms[v])])]
        /\ UNCHANGED <<src, compiler, compiled, vms, heap, globals, mu, output, pools, modules, exited>>

\* the opcodes the switch of Run has no case for: nothing but frame.ip++
NoCase == {OpMod, OpBitAnd, OpBitOr, OpBitXor, OpLshift, OpRshift}

StepNoCase ==
    \E v \in VMIds :
        /\ CanFetch(v)
        /\ (NextOp(v) \in NoCase \/ ~IsOpcode(NextOp(v)))
        /\ UpdateVM(v, Fetched(v))

Next ==
    \/ CompileProgram
    \/ NewVM
    \/ MainExit
    \/ RunExit
    \/ StepConstant
    \/ StepString
    \/ StepBinary
    \/ StepBang
    \/ StepMinus
    \/ StepTrue
    \/ StepFalse
    \/ StepPop
    \/ StepDup
    \/ StepOut
    \/ StepGetGlobalLock
    \/ StepGetGlobalRead
    \/ StepSetGlobalLock
    \/ StepSetGlobalWrite
    \/ StepGetLocal
    \/ StepSetLocal
    \/ StepGetBuiltin
    \/ StepArray
    \/ StepHash
    \/ StepIndex
    \/ StepMember
    \/ StepJump
    \/ StepJumpNotTruthy
    \/ StepJumpTruthy
    \/ StepCatch
    \/ StepThrow
    \/ StepEndCatch
    \/ StepCall
    \/ StepSpawn
    \/ StepImport
    \/ StepImportDone
    \/ StepClosure
    \/ StepGetFree
    \/ StepSetFree
    \/ StepReturnValue
    \/ StepReturn
    \/ StepNoCase
    \/ HostRequest
    \/ HostResponse

Spec == Init /\ [][Next]_vars

(***************************************************************************)
(* The REPL (package repl): Start compiles every line it reads with one    *)
(* compiler and runs it in a new machine over one globals array.           *)
(***************************************************************************)
MaxLines == 3

\* fn() { y }
LineFn == Program(<< ExpressionStatement(Fn(<<>>, <<ExpressionStatement(Id("y"))>>)) >>)

\* set x = 5;
LineSet == Program(<< SetStatement("x", IntegerLiteral(5)) >>)

\* out x;
LineOut == Program(<< OutStatement(Id("x")) >>)

\* the lines the user types
ReplInputs == << LineFn, LineSet, LineOut >>

\* Compiler.ResetInstructions
ResetInstructions(c) == [c EXCEPT !.scopes[Len(c.scopes)] = <<>>]

\* the error of a Compile is its return value: the compiler keeps none
WithoutError(c) == [c EXCEPT !.err = ""]

\* globals := make(...); globalsMu := &sync.RWMutex{}; comp := compiler.New()
ReplInit ==
    /\ src = 0
    /\ compiler = NewCompiler
    /\ compiled = FALSE
    /\ vms = <<>>
    /\ heap = <<>>
    /\ globals = << <<>> >>
    /\ mu = <<NewMutex>>
    /\ output = <<>>
    /\ pools = <<>>
    /\ modules = <<>>
    /\ exited = FALSE
    /\ host = NoHost

\* one turn of the loop of Start up to machine.Run(): the line is read and
\* compiled by comp; a compile error is printed, otherwise a machine over
\* comp.Bytecode() and the globals of the session is made
ReplLine ==
    /\ ~exited /\ ~host.waiting /\ Len(host.lines) < MaxLines
    /\ \E ln \in 1..Len(ReplInputs) :
         /\ compiler' = Compile(ResetInstructions(WithoutError(compiler)), ReplInputs[ln])
         /\ IF Failed(compiler')
            THEN /\ output' = Append(output, "Compiler error: " \o compiler'.err)
                 /\ host' = [host EXCEPT !.lines = Append(@, ln)]
                 /\ UNCHANGED <<vms, heap, pools>>
            ELSE /\ heap' = Append(heap, NewClosure(
                          CompiledFunction(Bytecode(compiler').Instructions, 0, 0),
                          <<>>, 0, 0))
                 /\ pools' = Append(pools, NewPool(Bytecode(compiler')))
                 /\ vms' = Append(vms, NewVMState(Len(heap) + 1, <<>>, 0,
                                                  Len(pools) + 1, 1, TRUE, 0))
                 /\ host' = [host EXCEPT !.lines = Append(@, ln), !.waiting = TRUE]
                 /\ output' = output
    /\ UNCHANGED <<src, compiled, globals, mu, modules, exited>>

\* the turn from the return of machine.Run(): a VM error is printed, otherwise
\* LastPoppedStackElem unless it is nil; a panic of Run ends the process
ReplResult ==
    /\ ~exited /\ host.waiting /\ vms[Len(vms)].status # "running"
    /\ LET m == vms[Len(vms)]
           stackTop == LastPoppedStackElem(m)
       IN /\ output' = IF m.status = "error" THEN Append(output, "VM error: " \o m.err)
                       ELSE IF m.status = "done" /\ stackTop # GoNil
                       THEN Append(output, Inspect(heap, stackTop))
                       ELSE output
          /\ exited' = (m.status = "panic")
    /\ host' = [host EXCEPT !.waiting = FALSE]
    /\ UNCHANGED <<src, compiler, compiled, vms, heap, globals, mu, pools, modules>>

\* the instructions the lines of ReplInputs compile to, and the end of Run
ReplNext ==
    \/ ReplLine
    \/ ReplResult
    \/ RunExit
    \/ StepConstant
    \/ StepOut
    \/ StepGetGlobalLock
    \/ StepGetGlobalRead
    \/ StepSetGlobalLock
    \/ StepSetGlobalWrite
    \/ StepGetLocal
    \/ StepSetLocal

ReplSpec == ReplInit /\ [][ReplNext]_vars



(***************************************************************************)
(* The properties checked of the model.                                    *)
(***************************************************************************)
\* the program being run is p
Running(p) == Programs[src] = p

\* the main VM has left Run
MainEnded == Len(vms) > 0 /\ vms[1].status # "running"

\* VM v executes the instruction op in this step
Executes(v, op) == Fetch(v, op) /\ vms'[v] # vms[v]

RECURSIVE SumSeq(_, _)
SumSeq(s, i) == IF i > Len(s) THEN 0 ELSE s[i] + SumSeq(s, i + 1)

\* the bytes an instruction with opcode op takes
InstructionLen(op) == 1 + SumSeq(OperandWidths(op), 1)

\* the instruction streams the compiler has produced: the top level and
\* every function constant
CompiledFunctions ==
    {compiler.constants[i] : i \in {j \in 1..Len(compiler.constants) :
                                      compiler.constants[j].t = "COMPILED_FUNCTION"}}
InstructionStreams ==
    {Bytecode(compiler).Instructions} \cup {fn.Instructions : fn \in CompiledFunctions}

\* the opcode of the last instruction of ins, decoded from Go index pos on
RECURSIVE LastOpcodeFrom(_, _)
LastOpcodeFrom(ins, pos) ==
    IF pos + InstructionLen(ins[pos + 1]) >= Len(ins) THEN ins[pos + 1]
    ELSE LastOpcodeFrom(ins, pos + InstructionLen(ins[pos + 1]))

\* the operands of the jump and catch instructions of ins, decoded from pos on
JumpOpcodes == {OpJump, OpJumpNotTruthy, OpJumpTruthy, OpCatch}
RECURSIVE JumpOperandsFrom(_, _)
JumpOperandsFrom(ins, pos) ==
    IF pos + 1 > Len(ins) THEN {}
    ELSE (IF ins[pos + 1] \in JumpOpcodes /\ pos + 3 <= Len(ins)
          THEN {ReadUint16(ins, pos)} ELSE {})
         \cup JumpOperandsFrom(ins, pos + InstructionLen(ins[pos + 1]))

\* OpCall on a closure, as a step of VM v
C1_CallStep ==
    \A v \in VMIds :
        Executes(v, OpCall) =>
            LET m == vms[v]
                n == Operand8(heap, Fetched(v))
                callee == StackAt(m, m.sp - 1 - n)
                m2 == vms'[v]
            IN (callee.t = "CLOSURE" /\ Ok(m2)) =>
                  /\ frameIndex(m2) = frameIndex(m) + 1
                  /\ currentFrame(m2).basePointer = m.sp - n
                  /\ currentFrame(m2).cl = callee.ref
                  /\ currentFrame(m2).ip = -1
                  /\ m2.sp = (m.sp - n) + heap[callee.ref].Fn.NumLocals
                  /\ StackAt(m2, currentFrame(m2).basePointer - 1) = callee
                  /\ m2.stack = m.stack

\* ReturnValue and Return in a called frame, as a step of VM v
C1_ReturnStep ==
    \A v \in VMIds : \A op \in {OpReturnValue, OpReturn} :
        (Executes(v, op) /\ frameIndex(vms[v]) > 1 /\ Ok(vms'[v])) =>
            LET m == vms[v]
                m2 == vms'[v]
                bp == currentFrame(m).basePointer
            IN /\ m2.frames = SubSeq(m.frames, 1, Len(m.frames) - 1)
               /\ m2.sp = bp
               /\ StackAt(m2, bp - 1) = (IF op = OpReturn THEN Null ELSE Top(m))

\* the frames that stay on the frame stack keep base pointer and closure
C1_FramesKept ==
    \A v \in VMIds : \A i \in 1..Len(vms[v].frames) :
        i <= Len(vms'[v].frames) =>
            /\ vms'[v].frames[i].basePointer = vms[v].frames[i].basePointer
            /\ vms'[v].frames[i].cl = vms[v].frames[i].cl

(* C1: a call of a closure with n arguments pushes a frame whose base       *)
(* pointer is sp - n, right above the callee's slot, and sets sp to base    *)
(* pointer + NumLocals; a frame's base pointer and closure never change     *)
(* while it is on the frame stack; ReturnValue and Return in a called frame *)
(* pop exactly that frame, leave the frames below as they were, put the     *)
(* result (Null for Return) in the slot that held the callee and set sp to  *)
(* the base pointer, that is to (sp before the call) - n.                   *)
C1_CallReturnDiscipline == [][C1_CallStep /\ C1_ReturnStep /\ C1_FramesKept]_vars

\* both calls of ProgCall's add and the call of nop have returned to the
\* top level and their results were printed
C1_Witness ==
    /\ Running(ProgCall) /\ output = <<"5", "null", "3">>
    /\ frameIndex(vms[1]) = 1 /\ vms[1].sp = 0

(* C2: every function the compiler produces has ReturnValue or Return as    *)
(* the opcode of its last instruction, so no call ends by running out of    *)
(* instructions: a VM that has left Run normally has no called frame left.  *)
C2_FunctionsEndWithReturn ==
    /\ (compiled /\ ~Failed(compiler)) =>
          \A fn \in CompiledFunctions :
              /\ Len(fn.Instructions) > 0
              /\ LastOpcodeFrom(fn.Instructions, 0) \in {OpReturnValue, OpReturn}
    /\ \A v \in VMIds : vms[v].status = "done" => frameIndex(vms[v]) <= 1

(* C3: in every instruction stream the compiler produces, the operand of    *)
(* every Jump, JumpNotTruthy, JumpTruthy and Catch is a position of that    *)
(* stream (its end included, where the stream is left) and no 9999          *)
(* placeholder is left.                                                     *)
C3_JumpTargetsValid ==
    (compiled /\ ~Failed(compiler)) =>
        \A ins \in InstructionStreams :
            \A target \in JumpOperandsFrom(ins, 0) :
                target <= Len(ins) /\ target # 9999

(* C4: when a throw executes inside the block of try { } catch (e) { },     *)
(* the catch block runs with e bound to the thrown value and its last       *)
(* expression is the value of the try expression (ProgTry prints boom!);    *)
(* when the block does not throw, the value is the block's last expression  *)
(* and the catch block is skipped (ProgTryNoThrow prints 1).                *)
C4_TryCatchValue ==
    MainEnded =>
        /\ Running(ProgTry) => output = <<"boom!">>
        /\ Running(ProgTryNoThrow) => output = <<"1">>

\* OpCatch, as a step of VM v
C5_CatchStep ==
    \A v \in VMIds :
        (Executes(v, OpCatch) /\ Ok(vms'[v])) =>
            vms'[v].catchHandlers =
                Append(vms[v].catchHandlers, Operand16(heap, Fetched(v)))

\* OpThrow with a value on the stack, as a step of VM v
C5_ThrowStep ==
    \A v \in VMIds :
        (Executes(v, OpThrow) /\ vms[v].sp > 0 /\ ~HasNil(heap, Top(vms[v]))) =>
            LET m == vms[v]
                m2 == vms'[v]
                hs == m.catchHandlers
            IN IF hs = <<>>
               THEN /\ m2.status = "error"
                    /\ m2.err = "uncaught throw: " \o Inspect(heap, Top(m))
                    /\ m2.sp = m.sp - 1
               ELSE /\ Ok(m2)
                    /\ m2.catchHandlers = SubSeq(hs, 1, Len(hs) - 1)
                    /\ m2.sp = m.sp /\ Top(m2) = Top(m)
                    /\ Len(m2.frames) = Len(m.frames)
                    /\ currentFrame(m2).cl = currentFrame(m).cl
                    /\ currentFrame(m2).ip = hs[Len(hs)] - 1

(* C5: Catch pushes its target on the handler stack. Throw pops the thrown  *)
(* value; with an empty handler stack Run returns the uncaught-throw error; *)
(* otherwise Throw pops exactly the most recently pushed handler, pushes    *)
(* the thrown value back and continues in the current frame at that         *)
(* handler's target, ip = target - 1.                                       *)
C5_HandlerStack == [][C5_CatchStep /\ C5_ThrowStep]_vars

\* the inner throw of ProgNestedTry was taken by the inner of two handlers
C5_Witness ==
    /\ Running(ProgNestedTry) /\ Len(vms) > 0
    /\ Len(vms[1].catchHandlers) = 1
    /\ vms[1].sp > 0 /\ Top(vms[1]) = String("in")

(* C6: x || y is x when x is truthy and y otherwise, x && y is y when x is  *)
(* truthy: ProgShortCircuit prints fallback for 0 || "fallback" and then 42 *)
(* for true && 42.                                                          *)
C6_ShortCircuitValue ==
    Running(ProgShortCircuit) =>
        /\ Len(output) >= 1 => output[1] = "fallback"
        /\ Len(output) >= 2 => output[2] = "42"

(* C7: for x in xs runs its body once per element, in index order, with x   *)
(* bound to the element, and execution goes on after the loop: ProgForIn    *)
(* prints 60.                                                               *)
C7_ForInSum ==
    (Running(ProgForIn) /\ MainEnded) => output = <<"60">>

\* GetFree and SetFree, as steps of VM v, and the only way a closure's Free
\* slice changes
C8_FreeStep ==
    /\ \A v \in VMIds :
          (Executes(v, OpGetFree) /\ Ok(vms'[v])) =>
              /\ Top(vms'[v]) = heap[currentFrame(vms[v]).cl].Free[
                                    Operand8(heap, Fetched(v)) + 1]
              /\ heap' = heap
    /\ \A v \in VMIds :
          (Executes(v, OpSetFree) /\ Ok(vms'[v])) =>
              LET cl == currentFrame(vms[v]).cl
              IN /\ heap'[cl].Free[Operand8(heap, Fetched(v)) + 1] = Top(vms[v])
                 /\ \A k \in 1..Len(heap) : k # cl => heap'[k] = heap[k]
    /\ \A k \in 1..Len(heap) :
          (heap[k].k = "closure" /\ heap'[k] # heap[k]) =>
              \E v \in VMIds : Executes(v, OpSetFree) /\ currentFrame(vms[v]).cl = k

\* s is a prefix of t
IsPrefix(s, t) == Len(s) <= Len(t) /\ SubSeq(t, 1, Len(s)) = s

(* C8: a closure keeps its captured state between calls: what SetFree       *)
(* writes stays in the closure object until a SetFree of that same object   *)
(* and is what its GetFree reads, so the counter f of ProgCounter returns   *)
(* 1, 2 and 3 on successive calls and the counter g made by a second call   *)
(* of makeCounter returns 1 in between.                                     *)
C8_ClosureKeepsState ==
    /\ [](Running(ProgCounter) => IsPrefix(output, <<"1", "2", "1", "3">>))
    /\ [][C8_FreeStep]_vars

\* f was called three times and g once, and every result was printed
C8_Witness ==
    Running(ProgCounter) /\ MainEnded /\ output = <<"1", "2", "1", "3">>

(* C9: two closures made in one invocation of the enclosing function that   *)
(* capture the same variable share it: in ProgShared the write of inc is    *)
(* read by get, and mk() prints 1.                                          *)
C9_SharedCapture ==
    (Running(ProgShared) /\ MainEnded) => output = <<"1">>

\* VM v is inside OpGetGlobal / OpSetGlobal, between taking and releasing
\* globalsMu
Reading(v) == vms[v].lk # "none" /\ vms[v].tmp.op = OpGetGlobal
Writing(v) == vms[v].lk # "none" /\ vms[v].tmp.op = OpSetGlobal

\* VM v is at or inside a GetGlobal or SetGlobal
AtGlobal(v) ==
    /\ ~exited /\ v \in VMIds /\ vms[v].status = "running"
    /\ (vms[v].lk # "none" \/ Fetch(v, OpGetGlobal) \/ Fetch(v, OpSetGlobal))

C10_LockInv ==
    \A v \in VMIds :
        /\ Reading(v) => (v \in mu[vms[v].gid].readers /\ mu[vms[v].gid].writer = 0)
        /\ Writing(v) => (mu[vms[v].gid].writer = v /\ mu[vms[v].gid].readers = {})
        /\ vms[v].lk = "none" =>
              \A g \in 1..Len(mu) : v \notin mu[g].readers /\ mu[g].writer # v
        /\ vms[v].status # "running" => vms[v].lk = "none"
        /\ \A w \in VMIds \ {v} :
              (Writing(v) /\ vms[w].gid = vms[v].gid) => (~Writing(w) /\ ~Reading(w))

\* the globals array changes only in the step of a VM that holds the lock for
\* a SetGlobal, and that step releases the lock
C10_WriteStep ==
    \A g \in 1..Len(globals) :
        globals'[g] # globals[g] =>
            \E v \in VMIds : Writing(v) /\ vms[v].gid = g /\ vms'[v].lk = "none"

\* the steps of OpGetGlobal and OpSetGlobal
GlobalsStep ==
    StepGetGlobalLock \/ StepGetGlobalRead \/ StepSetGlobalLock \/ StepSetGlobalWrite

\* the Go scheduler runs a goroutine that can take a step, and a released
\* sync.RWMutex is handed to a goroutine waiting for it
FairSpec == Spec /\ WF_vars(GlobalsStep)

(* C10: in every interleaving of the main VM and the spawned workers, a     *)
(* GetGlobal reads the globals while holding globalsMu in read mode and a   *)
(* SetGlobal writes them while holding it exclusively; a write overlaps no  *)
(* other write and no read; a VM outside these instructions holds nothing,  *)
(* and every VM that is at or inside a GetGlobal or SetGlobal gets past it. *)
C10_GlobalsLocking ==
    /\ []C10_LockInv
    /\ [][C10_WriteStep]_vars
    /\ \A v \in 1..MaxVMs : AtGlobal(v) ~> ~AtGlobal(v)

\* a worker is inside its SetGlobal while another VM stands before a global
\* access and has to wait
C10_Witness ==
    \E v, w \in VMIds :
        /\ v # w /\ v # 1 /\ Writing(v)
        /\ (Fetch(w, OpGetGlobal) \/ Fetch(w, OpSetGlobal))

\* VM v completes the GetGlobal, or the SetGlobal, it is inside of
CompletesGet(v) == Reading(v) /\ vms'[v].lk = "none"
CompletesSet(v) == Writing(v) /\ vms'[v].lk = "none"

\* a completed GetGlobal pushes what slot i of the array its VM shares holds
\* at that moment (unless the stack is full), and writes nothing
C11_ReadStep ==
    \A v \in VMIds :
        CompletesGet(v) =>
            LET g == globals[vms[v].gid]
                i == vms[v].tmp.globalIndex
            IN /\ globals' = globals
               /\ IF vms[v].sp >= StackSize
                  THEN vms'[v].status = "error" /\ vms'[v].err = "stack overflow"
                  ELSE /\ vms'[v].sp = vms[v].sp + 1
                       /\ Top(vms'[v]) = (IF i < Len(g) THEN g[i + 1] ELSE GoNil)

\* a completed SetGlobal stores its value in slot i of the array its VM
\* shares, and no step but a completed SetGlobal changes a slot
C11_SetStep ==
    /\ \A v \in VMIds :
          CompletesSet(v) =>
              LET g == vms[v].gid
                  i == vms[v].tmp.globalIndex
              IN /\ globals'[g][i + 1] = vms[v].tmp.val
                 /\ \A h \in 1..Len(globals) : \A j \in 1..Len(globals[h]) :
                       (h # g \/ j # i + 1) => globals'[h][j] = globals[h][j]
    /\ \A g \in 1..Len(globals) :
          globals'[g] # globals[g] => \E v \in VMIds : CompletesSet(v) /\ vms[v].gid = g

\* in ProgSpawnOne, a read of g by main that completes after the worker has
\* ended pushes 1
C11_ParentSeesWorker ==
    (Running(ProgSpawnOne) /\ Len(vms) = 2 /\ vms[2].status = "done" /\ CompletesGet(1))
        => Top(vms'[1]) = Integer(1)

(* C11: a GetGlobal on slot i returns the value of the most recent completed *)
(* SetGlobal on slot i, by whichever VM sharing the array did it: after the  *)
(* worker of ProgSpawnOne has set g to 1, out g in the parent prints 1.      *)
C11_GlobalsVisible ==
    /\ [][C11_ReadStep /\ C11_SetStep /\ C11_ParentSeesWorker]_vars
    /\ [](Running(ProgSpawnOne) => output \in {<<>>, <<"0">>, <<"1">>})

\* the worker ended before main read g, and main has printed 1
C11_Witness ==
    /\ Running(ProgSpawnOne) /\ Len(vms) = 2
    /\ vms[2].status = "done" /\ output = <<"1">>

\* the spawned workers
Workers == {v \in VMIds \ {1} : vms[v].importer = 0}

(* C12: every worker started by Spawn runs to completion or ends in an error *)
(* or a recovered panic, also when the parent's Run returns before the       *)
(* worker has finished: once the process is gone (after which no worker      *)
(* takes a step) no worker is left in the middle of its run.                 *)
C12_WorkersFinish ==
    exited => \A v \in Workers : vms[v].status # "running"

\* the operand and the target of the OpSpawn VM v is about to execute
SpawnArgs(v) == Operand8(heap, Fetched(v))
SpawnTarget(v) == StackAt(vms[v], vms[v].sp - 1 - SpawnArgs(v))

\* a Spawn of a function: the parent loses the n arguments and the target
\* and nothing else, and the worker is a new VM around the target
C13_SpawnFunction ==
    \A v \in VMIds :
        (Executes(v, OpSpawn) /\ SpawnTarget(v).t \in {"CLOSURE", "COMPILED_FUNCTION"}) =>
            LET n == SpawnArgs(v)
                w == vms'[Len(vms')]
            IN /\ vms'[v].status = "running"
               /\ vms'[v].sp = vms[v].sp - (n + 1)
               /\ vms'[v].stack = vms[v].stack
               /\ Len(vms'[v].frames) = Len(vms[v].frames)
               /\ currentFrame(vms'[v]).ip = currentFrame(vms[v]).ip + 2
               /\ vms'[v].catchHandlers = vms[v].catchHandlers
               /\ Len(vms') = Len(vms) + 1
               /\ \A u \in VMIds \ {v} : vms'[u] = vms[u]
               /\ w.status = "running" /\ w.catchHandlers = <<>>
               /\ Len(w.frames) = 1 /\ w.frames[1].basePointer = 0 /\ w.frames[1].ip = -1
               /\ SpawnTarget(v).t = "CLOSURE" => w.frames[1].cl = SpawnTarget(v).ref
               /\ heap'[w.frames[1].cl].k = "closure"
               /\ w.sp = heap'[w.frames[1].cl].Fn.NumLocals
               /\ \A i \in 0..(n - 1) :
                     StackAt(w, i) = StackAt(vms[v], vms[v].sp - n + i)
               /\ \A i \in n..(w.sp - 1) : StackAt(w, i) = GoNil

\* a Spawn of anything else ends the parent's Run with an error and starts
\* no worker
C13_SpawnOther ==
    \A v \in VMIds :
        (Executes(v, OpSpawn) /\ SpawnArgs(v) < vms[v].sp
           /\ SpawnTarget(v).t \notin {"CLOSURE", "COMPILED_FUNCTION", "nil"}) =>
            /\ vms'[v].status = "error"
            /\ vms'[v].err = "spawn target must be a function"
            /\ Len(vms') = Len(vms)

(* C13: Spawn n pops the n arguments and then the target from the parent's   *)
(* stack and pushes nothing; the parent never waits at a Spawn; the worker   *)
(* is a fresh VM whose only frame is the target closure with base pointer 0, *)
(* with the arguments in slots 0..n-1 and sp = num_locals; a target that is  *)
(* no function makes the parent's Run return an error.                       *)
C13_Spawn ==
    /\ [][C13_SpawnFunction /\ C13_SpawnOther]_vars
    /\ [](\A v \in VMIds : Fetch(v, OpSpawn) => ENABLED StepSpawn)
    /\ [](Running(ProgSpawnBad) /\ MainEnded =>
             (vms[1].status = "error" /\ Len(vms) = 1 /\ output = <<>>))

\* the second worker of ProgSpawn has been started with its argument 2 in
\* slot 0, and main is past both Spawns
C13_Witness ==
    /\ Running(ProgSpawn) /\ Len(vms) = 3
    /\ vms[3].frames[1].ip = -1 /\ StackAt(vms[3], 0) = Integer(2)
    /\ vms[3].sp = 1 /\ vms[1].sp = 0

\* worker w leaves its Run with an error or a panic in this step
WorkerFails(w) ==
    /\ w \in Workers /\ vms[w].status = "running"
    /\ vms'[w].status \in {"error", "panic"}

\* the step in which a worker fails changes no other VM
C14_FailureStep ==
    \A w \in Workers : WorkerFails(w) => \A u \in VMIds \ {w} : vms'[u] = vms[u]

\* a step of a worker changes nothing of its parent
C14_WorkerStep ==
    \A w \in Workers :
        vms'[w] # vms[w] =>
            /\ vms'[1].stack = vms[1].stack /\ vms'[1].sp = vms[1].sp
            /\ vms'[1].frames = vms[1].frames
            /\ vms'[1].catchHandlers = vms[1].catchHandlers
            /\ vms'[1].status = vms[1].status

\* the parents of the failing workers run to their end
C14_ParentsEnd ==
    /\ Running(ProgWorkerFails) /\ MainEnded =>
          (vms[1].status = "done" /\ output = <<"0">>)
    /\ Running(ProgWorkerFails2) /\ MainEnded =>
          (vms[1].status = "done" /\ output = <<"7">>)

(* C14: a runtime error or a panic inside a spawned worker changes neither   *)
(* the stack, sp, frames and handler stack of the parent nor makes the       *)
(* parent's Run return an error: the parent goes on to its end.              *)
C14_WorkerFailureContained ==
    /\ [][C14_FailureStep /\ C14_WorkerStep]_vars
    /\ []C14_ParentsEnd

\* one worker has ended with an error, the other with a panic, and the
\* parent is still running
C14_Witness ==
    /\ Len(vms) = 3 /\ vms[1].status = "running"
    /\ vms[2].status = "error" /\ vms[3].status = "panic"

\* the operand and the callee of the OpCall VM v is about to execute
CallArgs(v) == Operand8(heap, Fetched(v))
Callee(v) == StackAt(vms[v], vms[v].sp - 1 - CallArgs(v))

\* the Run of VM v ends in this step with the error msg, with no frame
\* pushed or popped and the stack as it was
RefusesCall(v, msg) ==
    /\ vms'[v].status = "error" /\ vms'[v].err = msg
    /\ Len(vms'[v].frames) = Len(vms[v].frames)
    /\ \A i \in 1..Len(vms[v].frames) :
          /\ vms'[v].frames[i].cl = vms[v].frames[i].cl
          /\ vms'[v].frames[i].basePointer = vms[v].frames[i].basePointer
    /\ vms'[v].sp = vms[v].sp /\ vms'[v].stack = vms[v].stack
    /\ vms'[v].catchHandlers = vms[v].catchHandlers

C18_CallStep ==
    \A v \in VMIds :
        Executes(v, OpCall) =>
            /\ (Callee(v).t = "CLOSURE"
                   /\ CallArgs(v) # heap[Callee(v).ref].Fn.NumParameters)
                  => RefusesCall(v, "wrong number of arguments")
            /\ Callee(v).t \notin {"CLOSURE", "BUILTIN", "nil"}
                  => RefusesCall(v, "calling non-function")

(* C18: OpCall n on a Closure whose num_parameters is not n ends Run with    *)
(* the wrong-number-of-arguments error, and OpCall on a value that is        *)
(* neither Closure nor Builtin ends it with the calling-non-function error;  *)
(* in both cases no frame is pushed and sp stays as it was.                  *)
C18_CallRefused ==
    /\ [][C18_CallStep]_vars
    /\ []((MainEnded /\ (Running(ProgCallFew) \/ Running(ProgCallMany)
                           \/ Running(ProgCallNonFn)))
            => (vms[1].status = "error" /\ output = <<"1">>))

\* the call f(3, 4) of the one-parameter f has been refused
C18_Witness ==
    /\ Running(ProgCallMany) /\ Len(vms) = 1 /\ vms[1].status = "error"
    /\ vms[1].err = "wrong number of arguments"
    /\ vms[1].sp = 3 /\ Len(vms[1].frames) = 1

\* the top-level VM has run the program to the end of its instructions
RanToEnd ==
    /\ MainEnded /\ vms[1].status = "done" /\ Len(vms[1].frames) = 1
    /\ Ip(vms[1]) >= Len(Instructions(heap, vms[1])) - 1

(* C19: when the top-level VM has run a compiled program to its end without  *)
(* a runtime error, its sp is 0 or 1, and sp is never negative.              *)
C19_TopLevelSp ==
    /\ RanToEnd => vms[1].sp \in {0, 1}
    /\ \A v \in VMIds : vms[v].sp >= 0

(* C20: exhausting the operand stack or the frames array is a runtime error  *)
(* that Run returns, never an access out of bounds: always 0 <= sp <=        *)
(* StackSize and frame_index <= MaxFrames, also straight after OpCall has    *)
(* reserved the locals and at recursion depth MaxFrames.                     *)
C20_StackAndFramesBounded ==
    \A v \in VMIds :
        /\ 0 <= vms[v].sp /\ vms[v].sp <= StackSize
        /\ frameIndex(vms[v]) <= MaxFrames
        /\ (Running(ProgDeepLocals) \/ Running(ProgDeepFrames)) => vms[v].status # "panic"

\* the path the OpImport VM v is about to execute asks for
ImportPath(v) == Top(vms[v])

\* VM v, which uses the module cache, executes an OpImport of a cached path
ImportsCached(v) ==
    /\ Executes(v, OpImport) /\ vms[v].sp > 0 /\ ImportPath(v).t = "STRING"
    /\ Cached(vms[v], ModulePath(ImportPath(v).sv))

\* the OpImport of VM v starts a sub-VM in this step
StartsModule(v) ==
    Executes(v, OpImport) /\ vms'[v].importing # 0

\* the OpImport of VM v, which uses the module cache, completes in this step
\* after a successful run of the module
CompletesImport(v) ==
    /\ vms[v].importing # 0 /\ vms'[v].importing = 0 /\ vms[v].hasModules
    /\ vms'[v].status = "running"

\* an Import of a cached path pushes the cached hash and runs nothing
C15_CachedStep ==
    \A v \in VMIds :
        ImportsCached(v) =>
            /\ vms'[v].status = "running" /\ vms'[v].importing = 0
            /\ vms'[v].sp = vms[v].sp
            /\ Top(vms'[v]) = modules[ModulePath(ImportPath(v).sv)]
            /\ Len(vms') = Len(vms)
            /\ UNCHANGED <<modules, pools, globals, heap, output>>

\* a module is started only for a path that is not in the cache, and the
\* path it is loaded under ends in .xn
C15_StartStep ==
    \A v \in VMIds :
        (StartsModule(v) /\ vms[v].hasModules) =>
            /\ vms'[v].tmp.modulePath = ModulePath(ImportPath(v).sv)
            /\ HasSuffix(vms'[v].tmp.modulePath, ".xn")
            /\ vms'[v].tmp.modulePath \notin DOMAIN modules

\* the first successful Import stores the hash it pushes under that path,
\* and an entry of the cache is never replaced or removed
C15_StoreStep ==
    /\ \A v \in VMIds :
          CompletesImport(v) =>
              /\ DOMAIN modules' = DOMAIN modules \cup {vms[v].tmp.modulePath}
              /\ modules'[vms[v].tmp.modulePath] = Top(vms'[v])
              /\ Top(vms'[v]).t = "HASH" /\ Top(vms'[v]).ref = Len(heap')
    /\ \A path \in DOMAIN modules :
          path \in DOMAIN modules' /\ modules'[path] = modules[path]

\* ProgImport and ProgImportShared run a.xn and b.xn once each (each prints
\* its name when run), whichever is imported first
C15_RunOnce ==
    /\ Running(ProgImport) =>
          /\ IsPrefix(output, <<"b", "a", "5", "101", "8", "9">>)
          /\ MainEnded => (vms[1].status = "done" /\ Len(output) = 6)
    /\ Running(ProgImportShared) =>
          /\ IsPrefix(output, <<"b", "a", "102">>)
          /\ MainEnded => (vms[1].status = "done" /\ Len(output) = 3)

ImportErrors ==
    {"import path must be string", "could not read import file", "import parse error",
     "import compile error", "import runtime error"}

\* the error the OpImport VM v is about to execute, or is waiting in, must
\* end with, "" for none
ImportFailure(v) ==
    IF vms[v].importing # 0
    THEN IF vms[vms[v].importing].status = "error" THEN "import runtime error" ELSE ""
    ELSE IF ~Fetch(v, OpImport) \/ vms[v].sp = 0 \/ ImportPath(v).t = "nil" THEN ""
    ELSE IF ImportPath(v).t # "STRING" THEN "import path must be string"
    ELSE LET modulePath == ModulePath(ImportPath(v).sv)
         IN IF Cached(vms[v], modulePath) THEN ""
            ELSE IF modulePath \notin DOMAIN FileSystem THEN "could not read import file"
            ELSE IF FileSystem[modulePath].errors THEN "import parse error"
            ELSE IF Failed(Compile(NewCompiler, FileSystem[modulePath].program))
            THEN "import compile error"
            ELSE ""

\* a step of a VM whose Import fails ends its Run with the error of the
\* failure and leaves the cache as it was
C16_FailStep ==
    \A v \in VMIds :
        (ImportFailure(v) # "" /\ vms'[v] # vms[v]) =>
            /\ vms'[v].status = "error" /\ vms'[v].err = ImportFailure(v)
            /\ vms'[v].importing = 0
            /\ modules' = modules /\ Len(vms') = Len(vms)

\* the program p ends with the error err, before its out 2, with nothing in
\* the cache
FailsWith(p, err) ==
    (Running(p) /\ MainEnded) =>
        /\ vms[1].status = "error" /\ vms[1].err = err
        /\ DOMAIN modules = {}
        /\ Len(output) >= 1 /\ output[1] = "1" /\ \A i \in 1..Len(output) : output[i] # "2"

(* C16: a failing Import (a path that is no String, an unreadable file, a    *)
(* parse error, a compile error, a runtime error of the module) makes Run    *)
(* return an error and adds no cache entry, so that a later Import of the    *)
(* path would load the file again.                                           *)
C16_FailedImport ==
    /\ [][C16_FailStep]_vars
    /\ [](/\ FailsWith(ProgImportNonString, "import path must be string")
          /\ FailsWith(ProgImportMissing, "could not read import file")
          /\ FailsWith(ProgImportParse, "import parse error")
          /\ FailsWith(ProgImportCompile, "import compile error")
          /\ FailsWith(ProgImportRuntime, "import runtime error"))

\* the module of ProgImportRuntime has run and thrown, and the importing Run
\* has ended with the import's error
C16_Witness ==
    /\ Running(ProgImportRuntime) /\ Len(vms) = 2
    /\ vms[2].status = "error" /\ output = <<"1", "r">>
    /\ vms[1].status = "error" /\ vms[1].err = "import runtime error"
    /\ DOMAIN modules = {}

\* the Import VM v waits in completes in this step with an export hash
BuildsExport(v) ==
    /\ vms[v].importing # 0 /\ vms'[v].importing = 0
    /\ vms[vms[v].importing].status = "done"

\* when an Import completes, the function of every closure reachable from
\* the export hash carries a pool: the module's if it carried none before,
\* else the one it carried; and no pool a function carries is ever replaced
C17_AttachStep ==
    /\ \A v \in VMIds :
          BuildsExport(v) =>
              \A r \in Closures(heap', HashRef(Len(heap'))) :
                  LET q == heap'[r].fnPool
                      i == heap'[r].fnIdx + 1
                  IN /\ q # 0
                     /\ pools'[q].Attached[i] =
                            (IF pools[q].Attached[i] = 0
                             THEN vms[vms[v].importing].constants
                             ELSE pools[q].Attached[i])
    /\ \A q \in 1..Len(pools) : \A i \in 1..Len(pools[q].Attached) :
          pools[q].Attached[i] # 0 => pools'[q].Attached[i] = pools[q].Attached[i]

\* an OpConstant executed in a frame whose function carries a pool pushes
\* the constant of that pool
C17_ResolveStep ==
    \A v \in VMIds :
        (Executes(v, OpConstant) /\ Ok(vms'[v])
           /\ FnConstants(heap[currentFrame(vms[v]).cl]) # 0) =>
            Top(vms'[v]) =
                pools[FnConstants(heap[currentFrame(vms[v]).cl])].Constants[
                    Operand16(heap, Fetched(v)) + 1]

\* add of b.xn adds the 100 of b.xn's pool, called as b.add by ProgImport and
\* as a.b.add, re-exported by a.xn, by ProgImportShared
C17_ModuleConstants ==
    /\ (Running(ProgImport) /\ Len(output) >= 4) => output[4] = "101"
    /\ (Running(ProgImportShared) /\ Len(output) >= 3) => output[3] = "102"

(* C17: after a successful Import every Closure reachable from the export    *)
(* hash through hash values, array elements and free lists carries the       *)
(* module's constants pool, except those that carried a pool already, which  *)
(* keep it; called in the importing VM, such a closure has its constant      *)
(* operands resolved in the pool it carries.                                 *)
C17_ExportsCarryPool ==
    /\ [][C17_AttachStep /\ C17_ResolveStep]_vars
    /\ []C17_ModuleConstants

\* ProgImportShared has ended: own of a.xn carries a.xn's pool, and add of
\* b.xn, reachable from a.xn's exports too, still carries b.xn's
C17_Witness ==
    /\ Running(ProgImportShared) /\ MainEnded /\ output = <<"b", "a", "102">>
    /\ FnConstants(heap[heap[modules["a.xn"].ref].Pairs[HashKey(String("own"))].ref]) = 3
    /\ FnConstants(heap[heap[heap[modules["a.xn"].ref].Pairs[HashKey(String("b"))].ref].Pairs[HashKey(String("add"))].ref]) = 2

\* VM v is about to execute Div or Mod with two Integer operands, the right
\* one 0
ZeroDivisor(v) ==
    /\ Fetch(v, OpDiv) \/ Fetch(v, OpMod)
    /\ vms[v].sp >= 2
    /\ Top(vms[v]) = Integer(0)
    /\ StackAt(vms[v], vms[v].sp - 2).t = "INTEGER"

(* C21: executing Div or Mod with a zero right operand makes Run return an   *)
(* error: the VM does not crash and no result value is pushed.               *)
C21_DivModByZero ==
    [][\A v \in VMIds :
          (ZeroDivisor(v) /\ vms'[v] # vms[v]) =>
              /\ vms'[v].status = "error"
              /\ vms'[v].sp = vms[v].sp - 2]_vars

\* the binary operator opcodes the InfixExpression case emits
BinaryOpcodes ==
    {OpAdd, OpSub, OpMul, OpDiv, OpMod, OpBitAnd, OpBitOr, OpBitXor, OpLshift, OpRshift,
     OpGreaterThan, OpEqual, OpNotEqual}

RelationalOpcodes == {OpGreaterThan, OpEqual, OpNotEqual}

\* the two topmost stack values of VM v are Integers
IntegerOperands(v) ==
    /\ vms[v].sp >= 2
    /\ Top(vms[v]).t = "INTEGER"
    /\ StackAt(vms[v], vms[v].sp - 2).t = "INTEGER"

(* C22: every binary operator opcode the compiler emits is executed by the   *)
(* run loop: with two Integer operands (the right one not a zero divisor) it *)
(* pops both and pushes one result, an Integer for the arithmetic and        *)
(* bitwise operators and a Boolean for the relational ones; Div and Mod give *)
(* the truncated quotient and its remainder (10 / 3 is 3, 10 % 3 is 1).      *)
C22_BinaryOperators ==
    [][\A v \in VMIds : \A op \in BinaryOpcodes :
          (Fetch(v, op) /\ IntegerOperands(v) /\ ~ZeroDivisor(v) /\ vms'[v] # vms[v]) =>
              LET left == StackAt(vms[v], vms[v].sp - 2).iv
                  right == Top(vms[v]).iv
                  result == Top(vms'[v])
              IN /\ vms'[v].status = "running"
                 /\ vms'[v].sp = vms[v].sp - 1
                 /\ result.t = IF op \in RelationalOpcodes THEN "BOOLEAN" ELSE "INTEGER"
                 /\ op = OpDiv => result.iv = GoDiv(left, right)
                 /\ op = OpMod => result.iv = left - right * GoDiv(left, right)]_vars

\* the operands of the Index VM v is about to execute
IndexLeft(v) == StackAt(vms[v], vms[v].sp - 2)
IndexOperand(v) == Top(vms[v])

\* an Index step on an Array with an Integer index pushes the element, or
\* Null out of range; one on a left operand that is neither Array nor Hash,
\* or on an Array with another index, ends Run with an error
C23_IndexStep ==
    \A v \in VMIds :
        (/\ Executes(v, OpIndex) /\ vms[v].sp >= 2
         /\ IndexLeft(v).t # "nil" /\ IndexOperand(v).t # "nil") =>
            LET left == IndexLeft(v)
                index == IndexOperand(v)
            IN /\ heap' = heap
               /\ IF left.t = "ARRAY" /\ index.t = "INTEGER"
                  THEN LET elements == heap[left.ref].Elements
                       IN /\ vms'[v].status = "running"
                          /\ vms'[v].sp = vms[v].sp - 1
                          /\ Top(vms'[v]) =
                                IF 0 <= index.iv /\ index.iv < Len(elements)
                                THEN elements[index.iv + 1] ELSE Null
                  ELSE left.t # "HASH" =>
                          /\ vms'[v].status = "error"
                          /\ vms'[v].err = "index operator not supported"

(* C23: Index on an Array with an Integer index i pushes element i when      *)
(* 0 <= i < length and Null when i is negative or i >= length, without       *)
(* error; Index on a value that is neither Array nor Hash, or on an Array    *)
(* with a non-Integer index, makes Run return an error.                      *)
C23_ArrayIndex == [][C23_IndexStep]_vars

\* ProgIndex has printed xs[0], xs[1], xs[2] and xs[-1] and ended in xs["a"]
C23_Witness ==
    /\ Running(ProgIndex) /\ MainEnded
    /\ output = <<"10", "20", "null", "null">>
    /\ vms[1].status = "error" /\ vms[1].err = "index operator not supported"

\* the stack slots of the keys an OpHash of n elements reads
KeySlots(v, n) == {i \in (vms[v].sp - n)..(vms[v].sp - 1) : (i - (vms[v].sp - n)) % 2 = 0}

HashableTypes == {"INTEGER", "BOOLEAN", "STRING"}

\* an Index step on a Hash ends Run with an error for a key that is not
\* Integer, Boolean or String, pushes Null for a key that is not present
\* and the stored value for one that is
C24_IndexStep ==
    \A v \in VMIds :
        (/\ Executes(v, OpIndex) /\ vms[v].sp >= 2
         /\ IndexLeft(v).t = "HASH" /\ IndexOperand(v).t # "nil") =>
            LET pairs == heap[IndexLeft(v).ref].Pairs
                index == IndexOperand(v)
            IN /\ heap' = heap
               /\ IF index.t \notin HashableTypes
                  THEN /\ vms'[v].status = "error"
                       /\ vms'[v].err = "unusable as hash key"
                  ELSE /\ vms'[v].status = "running"
                       /\ vms'[v].sp = vms[v].sp - 1
                       /\ Top(vms'[v]) = IF HashKey(index) \in DOMAIN pairs
                                         THEN pairs[HashKey(index)] ELSE Null

\* an OpHash step with a key that is not Integer, Boolean or String ends Run
\* with an error and builds nothing; otherwise it pushes a new Hash that
\* holds, for each key, the value of the last pair with that key
C24_BuildStep ==
    \A v \in VMIds :
        (Executes(v, OpHash) /\ HasOperands(heap, Fetched(v), 2)) =>
            LET n == Operand16(heap, Fetched(v))
                keys == KeySlots(v, n)
            IN (n <= vms[v].sp /\ \A i \in keys : StackAt(vms[v], i).t # "nil") =>
                  IF \E i \in keys : StackAt(vms[v], i).t \notin HashableTypes
                  THEN /\ vms'[v].status = "error"
                       /\ vms'[v].err = "unusable as hash key"
                       /\ heap' = heap
                  ELSE /\ vms'[v].status = "running"
                       /\ vms'[v].sp = vms[v].sp - n + 1
                       /\ Top(vms'[v]) = HashRef(Len(heap) + 1)
                       /\ Len(heap') = Len(heap) + 1
                       /\ DOMAIN heap'[Len(heap')].Pairs =
                              {HashKey(StackAt(vms[v], i)) : i \in keys}
                       /\ \A i \in keys :
                             (\A j \in keys : j > i =>
                                 HashKey(StackAt(vms[v], j)) # HashKey(StackAt(vms[v], i)))
                             => heap'[Len(heap')].Pairs[HashKey(StackAt(vms[v], i))]
                                    = StackAt(vms[v], i + 1)

(* C24: Index on a Hash with a key that is not Integer, Boolean or String    *)
(* makes Run return an error; with a hashable key that is not present it     *)
(* pushes Null; with a present key it pushes the stored value; building a    *)
(* Hash literal with a non-hashable key is an error too.                     *)
C24_HashIndex == [][C24_IndexStep /\ C24_BuildStep]_vars

\* ProgHash has printed h["a"], h[2], h[true], h["b"] and h.a and ended in
\* h[[1]]
C24_Witness ==
    /\ Running(ProgHash) /\ MainEnded
    /\ output = <<"1", "two", "3", "null", "1">>
    /\ vms[1].status = "error" /\ vms[1].err = "unusable as hash key"

\* the elements of a sequence of nodes
Nodes(seq) == {seq[i] : i \in 1..Len(seq)}

\* the nodes directly below node that are compiled with the loops around node
\* still around them: of a loop only what is compiled before the loop starts
SubNodes(node) ==
    CASE node.node \in {"Program", "BlockStatement"} -> Nodes(node.Statements)
      [] node.node = "ExpressionStatement" -> {node.Expression}
      [] node.node \in {"OutStatement", "ReturnStatement", "ThrowStatement",
                        "SetStatement", "AssignStatement"} -> {node.Value}
      [] node.node = "SpawnStatement" -> {node.Function} \cup Nodes(node.Arguments)
      [] node.node = "CallExpression" -> {node.Function} \cup Nodes(node.Arguments)
      [] node.node = "ImportStatement" -> {node.Path}
      [] node.node = "InfixExpression" -> {node.Left, node.Right}
      [] node.node = "PrefixExpression" -> {node.Right}
      [] node.node = "PostfixExpression" -> {node.Left}
      [] node.node = "ArrayLiteral" -> Nodes(node.Elements)
      [] node.node = "HashLiteral" ->
            UNION {{node.Pairs[i].Key, node.Pairs[i].Value} : i \in 1..Len(node.Pairs)}
      [] node.node = "IndexExpression" -> {node.Left, node.Index}
      [] node.node = "MemberExpression" -> {node.Object}
      [] node.node = "FunctionLiteral" -> {node.Body}
      [] node.node = "TryExpression" -> {node.Block, node.CatchBlock}
      [] node.node = "IfStatement" -> {node.Condition, node.Consequence, node.Alternative}
      [] node.node = "ForStatement" -> {node.Init}
      [] node.node = "ForInStatement" -> {node.Iterable}
      [] OTHER -> {}

\* node holds a break or continue statement that no loop of node encloses
RECURSIVE HasLooseJump(_)
HasLooseJump(node) ==
    \/ node.node \in {"BreakStatement", "ContinueStatement"}
    \/ \E sub \in SubNodes(node) : HasLooseJump(sub)

(* C25: compiling a break or continue statement that is not inside a loop    *)
(* returns a compile error, and no bytecode of the program is run.           *)
C25_JumpOutsideLoop ==
    /\ (compiled /\ HasLooseJump(Programs[src])) => (Failed(compiler) /\ vms = <<>>)
    /\ (compiled /\ (Running(ProgBreakOutside) \/ Running(ProgBreakAfterLoop)))
           => compiler.err = "break outside of loop"
    /\ (compiled /\ (Running(ProgContinueOutside) \/ Running(ProgContinueInFn)))
           => compiler.err = "continue outside of loop"

\* the break of ProgBreakAfterLoop, which follows a loop, has been refused
C25_Witness ==
    /\ Running(ProgBreakAfterLoop) /\ compiled
    /\ compiler.err = "break outside of loop" /\ vms = <<>>

\* the programs that assign to, or apply ++ / -- to, a name that resolves to
\* a symbol defined with const: in the scope of the const, in a function
\* below a global const, and in a function that captures a local const
ConstAssigning ==
    {ProgConstAssign, ProgConstPostfix, ProgConstInFn, ProgConstLocal, ProgConstCaptured}

LoopVar == GlobalAt(globals[1], 0)

\* the Go index of the first instruction of the condition of the for loop of
\* ProgForContinue and ProgForContinueExit (after set k = 0), and of the
\* first instruction after the loop (out 9)
LoopStart == InstructionLen(OpConstant) + InstructionLen(OpSetGlobal)
AfterLoop ==
    Len(Instructions(heap, vms[1])) - InstructionLen(OpConstant) - InstructionLen(OpOut)

\* the Jump of the continue statement (executed once k is 3, or 7, after 0
\* was printed) goes to the condition and leaves k and the output alone
C27_ContinueStep ==
    (/\ Running(ProgForContinue) \/ Running(ProgForContinueExit)
     /\ Len(vms) > 0 /\ Executes(1, OpJump)
     /\ LoopVar \in {Integer(3), Integer(7)} /\ output = <<"0">>) =>
        /\ Ip(vms'[1]) + 1 = LoopStart
        /\ globals' = globals /\ output' = output

\* the Jump of the break statement (executed when k is 4 and was printed)
\* goes to the first instruction after the loop
C27_BreakStep ==
    (/\ Running(ProgForContinue)
     /\ Len(vms) > 0 /\ Executes(1, OpJump)
     /\ LoopVar = Integer(4) /\ output = <<"0", "3", "4">>) =>
        Ip(vms'[1]) + 1 = AfterLoop

\* what the two programs print when continue skips the update and break
\* leaves the loop
C27_Output ==
    /\ Running(ProgForContinue) =>
          /\ IsPrefix(output, <<"0", "3", "4", "9">>)
          /\ MainEnded => (vms[1].status = "done" /\ output = <<"0", "3", "4", "9">>)
    /\ Running(ProgForContinueExit) =>
          /\ IsPrefix(output, <<"0", "9">>)
          /\ MainEnded => (vms[1].status = "done" /\ output = <<"0", "9">>)

(* C27: in a C-style for (init; cond; update) loop a continue jumps to the   *)
(* loop start, the evaluation of cond, and the update is not executed for    *)
(* that iteration; a break jumps to the first instruction after the loop.    *)
C27_ForContinue ==
    /\ [][C27_ContinueStep /\ C27_BreakStep]_vars
    /\ []C27_Output

\* ProgForContinue has ended: after the continue at k = 3 it printed 3, not 4
C27_Witness ==
    /\ Running(ProgForContinue) /\ MainEnded /\ output = <<"0", "3", "4", "9">>

\* the opcodes of the definition table
Opcodes == {op \in 0..255 : IsOpcode(op)}

\* operand values that fit a field of the given width, the limits among them
FittingOperands(width) == IF width = 2 THEN {0, 1, 255, 256, 4660, 65535} ELSE {0, 1, 18, 255}

\* the operand lists that fit the declared widths
RECURSIVE OperandLists(_, _)
OperandLists(widths, i) ==
    IF i > Len(widths) THEN {<<>>}
    ELSE {<<o>> \o rest : o \in FittingOperands(widths[i]),
                           rest \in OperandLists(widths, i + 1)}

\* the operand fields of the instruction at the start of ins, read big-endian
\* with the declared widths; offset is the Go index of field i
RECURSIVE DecodeOperands(_, _, _, _)
DecodeOperands(widths, ins, i, offset) ==
    IF i > Len(widths) THEN <<>>
    ELSE << IF widths[i] = 2 THEN ReadUint16(ins, offset - 1) ELSE ReadUint8(ins, offset - 1) >>
         \o DecodeOperands(widths, ins, i + 1, offset + widths[i])

\* Make yields 1 + (sum of the widths) bytes that start with op and decode to
\* the operands
C28_RoundTrip ==
    \A op \in Opcodes : \A operands \in OperandLists(OperandWidths(op), 1) :
        LET ins == Make(op, operands)
        IN /\ Len(ins) = 1 + SumSeq(OperandWidths(op), 1)
           /\ ins[1] = op
           /\ \A i \in 1..Len(ins) : ins[i] \in 0..255
           /\ DecodeOperands(OperandWidths(op), ins, 1, 1) = operands

\* a step of the run loop that stays in its frame leaves ip on the last
\* operand byte the table declares for the opcode, or where a jump operand
\* says; a call leaves the ip of the calling frame there
C28_SkipStep ==
    \A v \in VMIds : \A op \in Opcodes :
        (Executes(v, op) /\ vms'[v].status = "running" /\ op # OpThrow) =>
            LET m == vms[v]
                n == Len(m.frames)
                target == ReadUint16(Instructions(heap, m), Ip(m) + 1)
                next == Ip(m) + InstructionLen(op)
            IN /\ (Len(vms'[v].frames) = n /\ op \notin {OpJump, OpJumpNotTruthy, OpJumpTruthy})
                      => Ip(vms'[v]) = next
               /\ (Len(vms'[v].frames) = n /\ op = OpJump) => Ip(vms'[v]) = target - 1
               /\ (Len(vms'[v].frames) = n /\ op \in {OpJumpNotTruthy, OpJumpTruthy})
                      => Ip(vms'[v]) \in {next, target - 1}
               /\ Len(vms'[v].frames) = n + 1 => vms'[v].frames[n].ip = next

(* C28: for every opcode of the definition table and operands that fit the   *)
(* declared widths, Make(op, operands) is 1 + (sum of the widths) bytes      *)
(* whose first byte is op and whose operand fields, read big-endian with the *)
(* declared widths, give back the operands; the operand bytes the run loop   *)
(* skips for an opcode are those the table declares for it.                  *)
C28_MakeDecode == []C28_RoundTrip /\ [][C28_SkipStep]_vars

\* ProgCounter has executed its first Closure instruction, the one with two
\* operand fields, and stands on its last operand byte
C28_Witness ==
    \E v \in VMIds :
        /\ Running(ProgCounter) /\ vms[v].status = "running" /\ Ip(vms[v]) >= 3
        /\ Instructions(heap, vms[v])[Ip(vms[v]) - 2] = OpClosure
        /\ Ip(vms[v]) - 3 <= ReadUint16(Instructions(heap, vms[v]), Ip(vms[v]) - 3)
        /\ Top(vms[v]).t = "CLOSURE"

\* the arguments of the call VM v is about to execute
CallArguments(v) == Window(vms[v], vms[v].sp - CallArgs(v), vms[v].sp)

\* a call of the push method of an array with one argument: the array object
\* itself is one element longer, no object is added and no reference on the
\* stack or in the globals changes, so every reference sees the longer array
C29_MethodStep ==
    \A v \in VMIds :
        (/\ Executes(v, OpCall) /\ Callee(v).t = "BUILTIN"
         /\ Callee(v).name = "Array.push" /\ CallArgs(v) = 1) =>
            /\ Len(heap') = Len(heap)
            /\ heap'[Callee(v).self].Elements =
                   Append(heap[Callee(v).self].Elements, CallArguments(v)[1])
            /\ \A r \in DOMAIN heap : r # Callee(v).self => heap'[r] = heap[r]
            /\ globals' = globals
            /\ Top(vms'[v]) = Null

\* a call of the push builtin with an array and a value: the result is a new
\* array object one element longer and every object there was is unchanged
C29_BuiltinStep ==
    \A v \in VMIds :
        (/\ Executes(v, OpCall) /\ Callee(v).t = "BUILTIN"
         /\ Callee(v).name = "push" /\ CallArgs(v) = 2
         /\ CallArguments(v)[1].t = "ARRAY") =>
            /\ Top(vms'[v]).t = "ARRAY"
            /\ Top(vms'[v]).ref \notin DOMAIN heap
            /\ heap'[Top(vms'[v]).ref].Elements =
                   Append(heap[CallArguments(v)[1].ref].Elements, CallArguments(v)[2])
            /\ \A r \in DOMAIN heap : heap'[r] = heap[r]
            /\ globals' = globals

\* ProgPush: a has two elements after b.push(2) and still two after
\* push(a, 3), whose result has three
C29_Output ==
    Running(ProgPush) =>
        /\ IsPrefix(output, <<"2", "2", "2", "2", "3", "3">>)
        /\ MainEnded => (vms[1].status = "done"
                         /\ output = <<"2", "2", "2", "2", "3", "3">>)

(* C29: the array member method a.push(v) appends v to the array object a    *)
(* itself, so every other reference to a sees the longer array, whereas the  *)
(* host builtin push(a, v) returns a new array one element longer and leaves *)
(* a unchanged.                                                              *)
C29_ArrayPush ==
    /\ [][C29_MethodStep /\ C29_BuiltinStep]_vars
    /\ []C29_Output

\* ProgPush has ended: b.push(2) was seen through a, push(a, 3) was not
C29_Witness ==
    /\ Running(ProgPush) /\ MainEnded /\ output = <<"2", "2", "2", "2", "3", "3">>
    /\ GlobalAt(globals[1], 0) = GlobalAt(globals[1], 1)
    /\ GlobalAt(globals[1], 2) # GlobalAt(globals[1], 0)

\* an OpThrow step of VM v leaves the number of frames, every frame's closure
\* and base pointer and the ip of every frame below the current one as they
\* were
C30_FramesKept ==
    \A v \in VMIds :
        Executes(v, OpThrow) =>
            /\ frameIndex(vms'[v]) = frameIndex(vms[v])
            /\ \A i \in 1..frameIndex(vms[v]) :
                  /\ vms'[v].frames[i].basePointer = vms[v].frames[i].basePointer
                  /\ vms'[v].frames[i].cl = vms[v].frames[i].cl
                  /\ i < frameIndex(vms[v]) => vms'[v].frames[i] = vms[v].frames[i]

\* with a handler on the stack the step pops it and sets the ip of the current
\* frame to its target - 1, whichever frame executed the Catch
C30_TargetInCurrentFrame ==
    \A v \in VMIds :
        (Executes(v, OpThrow) /\ vms[v].sp > 0 /\ Len(vms[v].catchHandlers) > 0) =>
            /\ vms'[v].status = "running"
            /\ Ip(vms'[v]) = vms[v].catchHandlers[Len(vms[v].catchHandlers)] - 1
            /\ Len(vms'[v].catchHandlers) = Len(vms[v].catchHandlers) - 1

(* C30: Throw never changes frame_index or any frame's base pointer: the     *)
(* handler target is applied to the frame that is current when Throw         *)
(* executes, also when the matching Catch was executed by a different frame  *)
(* (a caller), and frames pushed since that Catch stay on the frame stack.   *)
C30_ThrowKeepsFrames == [][C30_FramesKept /\ C30_TargetInCurrentFrame]_vars

\* ProgThrowInCallee after the throw in f: the handler the main frame pushed
\* is gone, the frame of f is still the current one and its ip is the target
\* in the instructions of the main program, past the end of f's own
C30_Witness ==
    /\ Running(ProgThrowInCallee) /\ Len(vms) > 0
    /\ frameIndex(vms[1]) = 2 /\ vms[1].catchHandlers = <<>>
    /\ vms[1].sp > 0 /\ Top(vms[1]) = String("deep")
    /\ Ip(vms[1]) >= Len(Instructions(heap, vms[1]))
    /\ vms[1].frames[1].ip > 0

\* the instruction streams are walked in pieces of WalkChunk instructions
WalkChunk == 16

\* the Go index reached from pos after k instructions of ins, or its end
RECURSIVE SkipInstructions(_, _, _)
SkipInstructions(ins, pos, k) ==
    IF k = 0 \/ pos + 1 > Len(ins) THEN pos
    ELSE SkipInstructions(ins, pos + InstructionLen(ins[pos + 1]), k - 1)

\* the Go indices at which the next k instructions of ins start, from pos on
RECURSIVE StartsIn(_, _, _)
StartsIn(ins, pos, k) ==
    IF k = 0 \/ pos + 1 > Len(ins) THEN {}
    ELSE {pos} \cup StartsIn(ins, pos + InstructionLen(ins[pos + 1]), k - 1)

\* the Go index of every WalkChunk-th instruction of ins, from pos on
RECURSIVE ChunkHeads(_, _)
ChunkHeads(ins, pos) ==
    IF pos + 1 > Len(ins) THEN {}
    ELSE LET next == SkipInstructions(ins, pos, WalkChunk)
         IN {pos} \cup ChunkHeads(ins, next)

\* the Go indices at which the instructions of ins start
InstructionStarts(ins) ==
    UNION {StartsIn(ins, head, WalkChunk) : head \in ChunkHeads(ins, 0)}

\* the free-variable indices the instructions of ins read or write
FreeOperands(ins) ==
    {ReadUint8(ins, pos) : pos \in {p \in InstructionStarts(ins) :
                                      ins[p + 1] \in {OpGetFree, OpSetFree}}}

\* every Closure instruction the compiler emitted has nfree loads of a local
\* or free variable directly before it, and the function it names uses the
\* free indices 0..nfree-1 and no other
C31_Loads ==
    (compiled /\ ~Failed(compiler)) =>
        \A ins \in InstructionStreams :
            LET starts == InstructionStarts(ins)
                loadLen == InstructionLen(OpGetLocal)
            IN \A pos \in starts :
                  ins[pos + 1] = OpClosure =>
                      LET fnIdx == ReadUint16(ins, pos)
                          nfree == ins[pos + 4]
                          fn == compiler.constants[fnIdx + 1]
                      IN /\ \A i \in 1..nfree :
                               LET load == pos - (nfree - i + 1) * loadLen
                               IN /\ load \in starts
                                  /\ ins[load + 1] \in {OpGetLocal, OpGetFree}
                         /\ fn.t = "COMPILED_FUNCTION"
                         /\ FreeOperands(fn.Instructions) = 0..(nfree - 1)

\* OpClosure, as a step of VM v: the new closure wraps constants[fnIdx], its
\* free list holds the nfree values on top of the stack, first loaded first,
\* and sp changes by 1 - nfree
C31_ClosureStep ==
    \A v \in VMIds :
        (Executes(v, OpClosure) /\ Ok(vms'[v])) =>
            LET m == vms[v]
                fnIdx == Operand16(heap, Fetched(v))
                nfree == Instructions(heap, m)[Ip(Fetched(v)) + 4]
                cl == Top(vms'[v])
            IN /\ cl.t = "CLOSURE" /\ cl.ref \notin DOMAIN heap
               /\ heap'[cl.ref].Fn = getConstants(m)[fnIdx + 1]
               /\ Len(heap'[cl.ref].Free) = nfree
               /\ \A i \in 1..nfree :
                     heap'[cl.ref].Free[i] = StackAt(m, m.sp - nfree + i - 1)
               /\ vms'[v].sp = m.sp + 1 - nfree

\* ProgCaptureOrder: g captures a then b, h captures b then a
C31_Output ==
    Running(ProgCaptureOrder) =>
        /\ IsPrefix(output, <<"1", "2", "2", "1">>)
        /\ MainEnded => (vms[1].status = "done" /\ output = <<"1", "2", "2", "1">>)

(* C31: for every function literal the compiler emits in the enclosing      *)
(* scope exactly nfree loads, one per free symbol in FreeSymbols order,      *)
(* directly before Closure fnIdx, nfree; at run time OpClosure builds a      *)
(* closure whose free list has length nfree with free[i] equal to the i-th   *)
(* loaded value, and changes sp by 1 - nfree.                                *)
C31_ClosureCapture ==
    /\ []C31_Loads
    /\ [][C31_ClosureStep]_vars
    /\ []C31_Output

\* ProgCaptureOrder has ended; the closure h, the last one made, holds b
\* before a
C31_Witness ==
    /\ Running(ProgCaptureOrder) /\ MainEnded /\ output = <<"1", "2", "2", "1">>
    /\ \E r \in DOMAIN heap :
          heap[r].k = "closure" /\ heap[r].Free = << Integer(2), Integer(1) >>

\* the path of the module whose code VM v runs ("" for the top-level program
\* and for a worker)
ModuleOf(v) == IF vms[v].importer <= 0 THEN "" ELSE vms[vms[v].importer].tmp.modulePath

\* the VMs whose Import started VM v, from its importer up to the main VM
RECURSIVE Importers(_)
Importers(v) ==
    IF vms[v].importer <= 0 THEN {} ELSE {vms[v].importer} \cup Importers(vms[v].importer)

\* VM v runs a module that one of its importers runs too: a nested load
LoadsAgain(v) == \E u \in Importers(v) : ModuleOf(u) = ModuleOf(v)

\* while the sub-VM of a module runs, the cache has no entry for the module
C32_NotCached ==
    \A v \in VMIds :
        (vms[v].importer > 0 /\ vms[v].status = "running") =>
            ModuleOf(v) \notin DOMAIN modules

\* an Import executed in ProgImportSelf or ProgImportCycle starts the module
\* in a new sub-VM, at its first instruction with an empty stack
C32_ImportStep ==
    \A v \in VMIds :
        ((Running(ProgImportSelf) \/ Running(ProgImportCycle)) /\ Executes(v, OpImport)) =>
            /\ Len(vms') = Len(vms) + 1
            /\ vms'[Len(vms')].importer = v /\ vms'[v].importing = Len(vms')
            /\ vms'[Len(vms')].status = "running"
            /\ vms'[Len(vms')].sp = 0 /\ Ip(vms'[Len(vms')]) = -1
            /\ Len(vms'[Len(vms')].frames) = 1

\* no Import of the two programs completes: every VM keeps running, nothing
\* is cached and no statement behind an Import is reached
C32_NeverCompletes ==
    /\ Running(ProgImportSelf) =>
          /\ \A v \in VMIds : vms[v].status = "running"
          /\ modules = <<>> /\ ~exited
          /\ \A i \in 1..Len(output) : output[i] = "s"
          /\ Len(output) <= Len(vms) /\ (Len(vms) > 0 => Len(output) < Len(vms))
    /\ Running(ProgImportCycle) =>
          /\ \A v \in VMIds : vms[v].status = "running"
          /\ modules = <<>> /\ ~exited
          /\ \A i \in 1..Len(output) : output[i] = (IF i % 2 = 1 THEN "p" ELSE "q")
          /\ Len(output) <= Len(vms) /\ (Len(vms) > 0 => Len(output) < Len(vms))

(* C32: a module that imports itself, directly or through a cycle of         *)
(* modules, finds no cache entry for itself while it is running, so each     *)
(* Import re-enters the loader and starts the module again in a new sub-VM;  *)
(* the chain of nested loads never ends and the outermost Import never       *)
(* completes.                                                                *)
C32_ImportCycle ==
    /\ []C32_NotCached
    /\ [][C32_ImportStep]_vars
    /\ []C32_NeverCompletes

\* the chain of loads has reached the bound of the model: the last sub-VM
\* runs a module that an importer of it is still running
C32_Witness ==
    /\ Running(ProgImportSelf) \/ Running(ProgImportCycle)
    /\ Len(vms) = MaxVMs /\ LoadsAgain(MaxVMs)
    /\ \A v \in 1..(MaxVMs - 1) : vms[v].importing = v + 1

\* the value the closure of callback VM v returned: ReturnValue and Return in
\* the outermost frame leave it in slot 0
ReturnedValue(v) == StackAt(vms[v], 0)

(* C33: the host callback run_closure(cl, args) runs cl in a sub-VM that     *)
(* shares the globals array and returns the value cl returned (the value its *)
(* ReturnValue produced, Null for a plain Return); it returns an Error value *)
(* only when the sub-VM's Run returned an error.                             *)
C33_CallbackResult ==
    /\ \A v \in CallbackVMs : vms[v].gid = 1
    /\ \A i \in 1..Len(host.responses) :
          LET r == host.responses[i]
          IN /\ vms[r.vm].status = "done" => r.res = ReturnedValue(r.vm)
             /\ vms[r.vm].status = "error" => r.res = Error(vms[r.vm].err)
    /\ Running(ProgServe) =>
          \A i \in 1..Len(host.responses) : host.responses[i].res = String("hi")
    /\ Running(ProgServeLocal) =>
          \A i \in 1..Len(host.responses) : host.responses[i].res = Integer(6)
    /\ Running(ProgServeNoValue) =>
          \A i \in 1..Len(host.responses) : host.responses[i].res = Null
    /\ Running(ProgServeThrow) =>
          \A i \in 1..Len(host.responses) : host.responses[i].res.t = "ERROR"

\* f of ProgReturnInTry is called with an empty handler stack: when its frame
\* is popped, the handler its Catch pushed is gone
C34_ReturnStep ==
    \A v \in VMIds : \A op \in {OpReturnValue, OpReturn} :
        (Running(ProgReturnInTry) /\ Executes(v, op) /\ frameIndex(vms[v]) > 1) =>
            vms'[v].catchHandlers = <<>>

\* no handler is left for the throw at top level, which is uncaught
C34_LateThrow ==
    (Running(ProgReturnInTry) /\ MainEnded) =>
        /\ vms[1].status = "error" /\ vms[1].err = "uncaught throw: late"
        /\ output = <<"1">>

(* C34: the handler stack is balanced per function invocation: when a frame  *)
(* is popped by Return or ReturnValue, no handler pushed by a Catch executed *)
(* in that frame is left on the VM's handler stack, so a return inside a try *)
(* block cannot leave a stale handler that a later Throw in another function *)
(* jumps to.                                                                 *)
C34_HandlersBalanced == [][C34_ReturnStep]_vars /\ []C34_LateThrow

\* while a VM is inside a GetGlobal or SetGlobal, the globals array it works
\* on is written by no step but the one that completes its own SetGlobal
C35_SingleAccess ==
    \A v \in VMIds :
        (Reading(v) \/ Writing(v)) =>
            (globals'[vms[v].gid] # globals[vms[v].gid] => CompletesSet(v))

\* between two instructions a VM holds no mutex: the lock of GetGlobal is
\* released before Add and SetGlobal run
C35_Released ==
    \A v \in VMIds :
        vms[v].lk = "none" =>
            \A g \in 1..Len(mu) : v \notin mu[g].readers /\ mu[g].writer # v

\* ProgLostUpdate: every SetGlobal of g = g + 1 stores 1 or 2
C35_Values ==
    Running(ProgLostUpdate) =>
        /\ Len(globals) > 0 => GlobalAt(globals[1], 0) \in {GoNil, Integer(0), Integer(1), Integer(2)}
        /\ output \in {<<>>, <<"1">>, <<"2">>}

(* C35: the globals mutex makes each single GetGlobal and each single        *)
(* SetGlobal atomic, but not the sequence GetGlobal; Add; SetGlobal: when    *)
(* two VMs sharing the globals array each execute g = g + 1 once, there is   *)
(* an interleaving after which g has grown by 1 only (a lost update).        *)
C35_LostUpdate ==
    /\ [][C35_SingleAccess]_vars
    /\ []C35_Released
    /\ []C35_Values

\* the main VM and the worker of ProgLostUpdate have both run g = g + 1 to the
\* end, and g is 1
C35_Witness ==
    /\ Running(ProgLostUpdate) /\ Len(vms) = 2
    /\ vms[1].status = "done" /\ vms[2].status = "done"
    /\ GlobalAt(globals[1], 0) = Integer(1)

\* the function of every frame that is current was taken from the pool the
\* VM resolves its constant operands in
C36_OwnPool ==
    \A v \in VMIds :
        (vms[v].status = "running" /\ frameIndex(vms[v]) > 0
         /\ heap[currentFrame(vms[v]).cl].fnPool # 0) =>
            CurrentPool(vms[v]) = heap[currentFrame(vms[v]).cl].fnPool

\* the function the factory of c.xn returns after the import returns 9
C36_Factory ==
    (Running(ProgImportFactory) /\ MainEnded) =>
        (vms[1].status = "done" /\ output = <<"9">>)

(* C36: any code compiled from a module runs against the module's constants *)
(* pool when it executes in the importing VM, including closures that are    *)
(* created by OpClosure only after the import, while an exported closure     *)
(* runs (for instance the function returned by an exported factory           *)
(* function).                                                                *)
C36_ModulePool == C36_OwnPool /\ C36_Factory

\* the globals arrays of the VMs that ran the bytecode of pool q as their own
GlobalsOfPool(q) == {vms[u].gid : u \in {w \in VMIds : vms[w].constants = q}}

\* a GetGlobal completed by a function of a module reads the slot of the
\* globals array the module's top-level code wrote
C37_ReadStep ==
    \A v \in VMIds :
        (CompletesGet(v) /\ Ok(vms'[v]) /\ heap[currentFrame(vms[v]).cl].fnPool # 0) =>
            \A g \in GlobalsOfPool(heap[currentFrame(vms[v]).cl].fnPool) :
                Top(vms'[v]) = GlobalAt(globals[g], vms[v].tmp.globalIndex)

\* d.get() returns the 100 the module stored in base, not the 7 the program
\* stored in slot 0 of its own array
C37_Exported ==
    (Running(ProgImportGlobal) /\ MainEnded) =>
        (vms[1].status = "done" /\ output = <<"100">>)

(* C37: an exported module function that reads or writes a module-level      *)
(* global operates on the value the module's own top-level code gave that    *)
(* global: a GetGlobal executed by an exported closure in the importing VM   *)
(* returns what the module stored in that slot, not what the importing       *)
(* program stored at the same slot index of its own globals array.           *)
C37_ModuleGlobals == [][C37_ReadStep]_vars /\ []C37_Exported

\* the break of ProgBreakInFn sits in a function literal that has no loop of
\* its own: the compilation is refused
C38_Refused ==
    (compiled /\ Running(ProgBreakInFn)) =>
        (Failed(compiler) /\ compiler.err = "break outside of loop" /\ vms = <<>>)

\* the top-level buffer of ProgBreakInFn still starts with the Constant 0 of
\* set f = 0: patchLoopExits has not rewritten bytes of the enclosing buffer
C38_OuterBufferKept ==
    (compiled /\ Running(ProgBreakInFn) /\ ~Failed(compiler)) =>
        SubSeq(Bytecode(compiler).Instructions, 1, 3) = Make(OpConstant, <<0>>)

(* C38: loop contexts do not cross function boundaries: a break written      *)
(* inside a function literal that is nested in a loop, with no loop of its   *)
(* own around it, is a compile error, and patchLoopExits rewrites Jump       *)
(* operands only in the buffer in which the Jump was emitted, never bytes of *)
(* the enclosing function's buffer.                                          *)
C38_LoopContext == C38_Refused /\ C38_OuterBufferKept

\* a turn of the REPL whose Compile returns an error leaves the depth of the
\* scope stack, the depth of the symbol table chain and the loop stack alone
C39_ErrorStep ==
    (host'.lines # host.lines /\ Failed(compiler')) =>
        /\ Len(compiler'.scopes) = Len(compiler.scopes)
        /\ Len(compiler'.symbolTable) = Len(compiler.symbolTable)
        /\ compiler'.loopStack = compiler.loopStack

\* once the REPL has compiled set x = 5, whatever the lines before it were,
\* x is a Global of the one top-level scope
C39_TopLevel ==
    (Len(host.lines) > 0 /\ ReplInputs[host.lines[Len(host.lines)]] = LineSet) =>
        /\ ~Failed(compiler)
        /\ Len(compiler.scopes) = 1
        /\ Resolve(compiler, "x").sym.Scope = "GLOBAL"

(* C39: when Compile returns an error, the compiler's scope stack depth,     *)
(* current symbol table and loop stack are as before the call, so the REPL,  *)
(* which compiles every line with one compiler, compiles the next line at    *)
(* top level again, where set defines a Global.                              *)
C39_CompilerRestored == [][C39_ErrorStep]_vars /\ []C39_TopLevel

\* the heap object a value points to: a closure, an array, a hash, or the
\* array a bound member method was taken from
Refs(obj) ==
    IF obj.t \in {"CLOSURE", "ARRAY", "HASH"} THEN {obj.ref}
    ELSE IF obj.t = "BUILTIN" /\ "self" \in DOMAIN obj THEN {obj.self}
    ELSE {}

RefsOfAll(objs) == UNION {Refs(objs[i]) : i \in DOMAIN objs}

\* the objects heap object r points to
HeapRefs(r) ==
    CASE heap[r].k = "closure" -> RefsOfAll(heap[r].Free)
      [] heap[r].k = "array" -> RefsOfAll(heap[r].Elements)
      [] heap[r].k = "hash" -> RefsOfAll(heap[r].Pairs)
      [] OTHER -> {}

RECURSIVE ReachableFrom(_)
ReachableFrom(S) ==
    LET T == S \cup UNION {HeapRefs(r) : r \in S}
    IN IF T = S THEN S ELSE ReachableFrom(T)

\* the objects VM u can get at: through its stack, the closures of its frames
\* and the globals it shares
Reach(u) ==
    ReachableFrom(RefsOfAll([i \in 1..vms[u].sp |-> StackAt(vms[u], i - 1)])
                  \cup {vms[u].frames[i].cl : i \in 1..Len(vms[u].frames)}
                  \cup RefsOfAll(globals[vms[u].gid]))

\* the VMs other than v that are still running
Others(v) == {u \in VMIds \ {v} : vms[u].status = "running"}

\* a SetFree writes the free vector of a closure no other running VM reaches
C40_SetFreeStep ==
    \A v \in VMIds :
        (Executes(v, OpSetFree) /\ heap' # heap) =>
            \A u \in Others(v) : currentFrame(vms[v]).cl \notin Reach(u)

\* a call of the push member method grows an array no other running VM reaches
C40_PushStep ==
    \A v \in VMIds :
        (/\ Executes(v, OpCall) /\ Callee(v).t = "BUILTIN"
         /\ Callee(v).name = "Array.push" /\ heap' # heap) =>
            \A u \in Others(v) : Callee(v).self \notin Reach(u)

(* C40: the globals array, accessed under the mutex, is the only mutable     *)
(* state a parent VM and a spawned worker can both reach: no closure free    *)
(* vector is written by SetFree and no array is grown by the push member     *)
(* method in one VM while another VM can reach the same object.              *)
C40_OnlyGlobalsShared == [][C40_SetFreeStep /\ C40_PushStep]_vars

====
